---- MODULE Spec2Model ----
(***************************************************************************)
(* State-machine model of the forensic risk scoring engine of             *)
(* stock-forensic-analysis: utils.safe_divide, ForensicAnalyzer            *)
(* (_get_value, Beneish M-Score, Altman Z-Score, ownership rules,          *)
(* red-flag rules, generate_forensic_report) and the top-level aggregation *)
(* of main.analyze_stock.                                                  *)
(*                                                                         *)
(* Two number domains are used.  Statement values and the M/Z scores are   *)
(* exact rationals.  The additive risk scores, the means and the weighted  *)
(* sum are IEEE-754 binary64 values, held as fixed-point digit strings in  *)
(* base 2^12 and rounded to 53 significant bits (ties to even) after each  *)
(* operation, because the code compares them with 0.3 and 0.6.             *)
(*                                                                         *)
(* PatternDetector works on a price series of whole-number bars; what it   *)
(* computes from them is held as exact rationals.                          *)
(*                                                                         *)
(* Four specifications share the variables: Spec (the public methods of    *)
(* one ForensicAnalyzer, and the clock), SpecUtils (one call of            *)
(* safe_divide or of _get_value), SpecStock (one run of analyze_stock) and *)
(* SpecPattern (the methods of one PatternDetector).                       *)
(***************************************************************************)
EXTENDS Integers, Sequences, FiniteSets, TLC

(***************************************************************************)
(* Python values: a number (exact rational n/d, d > 0, lowest terms),      *)
(* not-a-number, None, or a non-numeric object (a string).                 *)
(***************************************************************************)
Abs(x) == IF x < 0 THEN -x ELSE x

\* the element of a one-element set; {e(a) : a \in {x}} evaluates the
\* argument x once and names its value a
The(S) == CHOOSE x \in S : TRUE

RECURSIVE Gcd(_, _)
Gcd(a, b) == IF b = 0 THEN a ELSE Gcd(b, a % b)

Num(n, d) ==
    The({[k |-> "num", n |-> (IF q < 0 THEN -p ELSE p) \div g, d |-> Abs(q) \div g] :
            <<p, q, g>> \in {<<n, d, Gcd(Abs(n), Abs(d))>>}})

Int2Num(n) == [k |-> "num", n |-> n, d |-> 1]
NaN == [k |-> "nan", n |-> 0, d |-> 1]
NoneV == [k |-> "none", n |-> 0, d |-> 1]
StrV == [k |-> "str", n |-> 0, d |-> 1]

IsNum(v) == v.k = "num"
\* pd.isna: true of NaN and of None
IsNa(v) == v.k \in {"nan", "none"}
\* the operand types on which <, >, +, -, *, / and round() raise TypeError
NonNumeric(v) == v.k \in {"none", "str"}

RAdd(x, y) == The({Num(a.n * b.d + b.n * a.d, a.d * b.d) : a \in {x}, b \in {y}})
RSub(x, y) == The({Num(a.n * b.d - b.n * a.d, a.d * b.d) : a \in {x}, b \in {y}})
RMul(x, y) == The({Num(a.n * b.n, a.d * b.d) : a \in {x}, b \in {y}})
RDiv(x, y) == The({Num(a.n * b.d, a.d * b.n) : a \in {x}, b \in {y}})
RAbs(x) == The({[a EXCEPT !.n = Abs(a.n)] : a \in {x}})
RLt(x, y) == \E a \in {x}, b \in {y} : a.n * b.d < b.n * a.d
RGt(x, y) == RLt(y, x)
RIsZero(x) == x.n = 0

\* Python arithmetic with IEEE semantics for not-a-number: any operation on
\* NaN gives NaN, any ordered comparison with NaN is false.
PyAdd(x, y) ==
    The({IF IsNum(a) /\ IsNum(b) THEN RAdd(a, b) ELSE NaN : a \in {x}, b \in {y}})
PySub(x, y) ==
    The({IF IsNum(a) /\ IsNum(b) THEN RSub(a, b) ELSE NaN : a \in {x}, b \in {y}})
PyMul(x, y) ==
    The({IF IsNum(a) /\ IsNum(b) THEN RMul(a, b) ELSE NaN : a \in {x}, b \in {y}})
PyAbs(x) == The({IF IsNum(a) THEN RAbs(a) ELSE NaN : a \in {x}})
PyLt(x, y) == \E a \in {x}, b \in {y} : IsNum(a) /\ IsNum(b) /\ RLt(a, b)
PyGt(x, y) == PyLt(y, x)

\* round(x, digits) for digits given as the scale 10^digits: the nearest
\* multiple of 1/scale, halves to even; NaN stays NaN.
PyRound(x, scale) ==
    The({IF ~IsNum(v) THEN NaN
         ELSE LET a == Abs(v.n) * scale
                  q == a \div v.d
                  r == a % v.d
                  up == (2 * r > v.d) \/ (2 * r = v.d /\ q % 2 = 1)
                  m == IF up THEN q + 1 ELSE q
              IN  Num(IF v.n < 0 THEN -m ELSE m, scale) : v \in {x}})

(***************************************************************************)
(* IEEE-754 binary64, non-negative values below Base.  A value x is the    *)
(* digit string of x * Base^FracLimbs in base 2^12, least significant      *)
(* digit first, in FracLimbs + 1 digits.                                   *)
(***************************************************************************)
FracLimbs == 6
NLimbs == FracLimbs + 1

RECURSIVE Pow2(_)
Pow2(e) == IF e = 0 THEN 1 ELSE 2 * Pow2(e - 1)
Base == Pow2(12)

RECURSIVE BitLen(_)
BitLen(v) == IF v = 0 THEN 0 ELSE 1 + BitLen(v \div 2)

ZeroLimbs(w) == [i \in 1..w |-> 0]

\* position (from 1) of the most significant binary digit, 0 for zero
Msb(a) ==
    LET nz == {i \in 1..Len(a) : a[i] # 0}
    IN  IF nz = {} THEN 0
        ELSE LET t == CHOOSE i \in nz : \A j \in nz : j <= i
             IN  12 * (t - 1) + BitLen(a[t])

RECURSIVE AddCarry(_, _, _, _, _)
AddCarry(a, b, i, c, acc) ==
    IF i > Len(a) THEN acc
    ELSE LET s == a[i] + b[i] + c
         IN  AddCarry(a, b, i + 1, s \div Base, Append(acc, s % Base))
LimbsAdd(a, b) == AddCarry(a, b, 1, 0, <<>>)

\* round to 53 significant binary digits, ties to even; sticky tells that
\* digits below the string were non-zero
RoundNearestEven(a, sticky) ==
    LET s == Msb(a) - 53
    IN  IF s <= 0 THEN a
        ELSE LET gl == ((s - 1) \div 12) + 1
                 gb == (s - 1) % 12
                 tl == (s \div 12) + 1
                 tb == s % 12
                 guard == (a[gl] \div Pow2(gb)) % 2
                 rest == sticky \/ (a[gl] % Pow2(gb) # 0)
                                \/ (\E i \in 1..(gl - 1) : a[i] # 0)
                 lsb == (a[tl] \div Pow2(tb)) % 2
                 trunc == [i \in 1..Len(a) |->
                              IF i < tl THEN 0
                              ELSE IF i = tl THEN a[i] - (a[i] % Pow2(tb))
                              ELSE a[i]]
                 unit == [i \in 1..Len(a) |-> IF i = tl THEN Pow2(tb) ELSE 0]
             IN  IF guard = 1 /\ (rest \/ lsb = 1)
                 THEN LimbsAdd(trunc, unit)
                 ELSE trunc

RECURSIVE DivStep(_, _, _, _, _)
DivStep(a, k, i, rem, acc) ==
    IF i = 0 THEN [q |-> acc, r |-> rem]
    ELSE LET cur == Base * rem + a[i]
         IN  DivStep(a, k, i - 1, cur % k, <<cur \div k>> \o acc)

RECURSIVE MulStep(_, _, _, _, _)
MulStep(a, k, i, c, acc) ==
    IF i > Len(a) THEN acc
    ELSE LET s == a[i] * k + c
         IN  MulStep(a, k, i + 1, s \div Base, Append(acc, s % Base))

RECURSIVE GtFrom(_, _, _)
GtFrom(a, b, i) ==
    IF i = 0 THEN FALSE
    ELSE IF a[i] # b[i] THEN a[i] > b[i] ELSE GtFrom(a, b, i - 1)

\* the double of a natural number below Base
FromInt(n) == [i \in 1..NLimbs |-> IF i = NLimbs THEN n ELSE 0]
\* x / k for an integer k > 0 (numpy: sum / count)
FDivInt(x, k) ==
    The({The({RoundNearestEven(d.q, d.r # 0) :
                 d \in {DivStep(a, k, Len(a), 0, <<>>)}}) : a \in {x}})
\* the double a decimal literal p/q denotes
F(p, q) == FDivInt(FromInt(p), q)
FAdd(x, y) ==
    The({The({RoundNearestEven(s, FALSE) : s \in {LimbsAdd(a, b)}}) :
            a \in {x}, b \in {y}})
FGt(x, y) == \E a \in {x}, b \in {y} : GtFrom(a, b, Len(a))
FMin(x, y) == The({IF FGt(a, b) THEN b ELSE a : a \in {x}, b \in {y}})

\* the exact product, column by column
RECURSIVE ColSum(_, _, _, _)
ColSum(a, b, c, i) ==
    IF i > Len(a) THEN 0
    ELSE (IF (c + 1 - i) \in 1..Len(b) THEN a[i] * b[c + 1 - i] ELSE 0)
         + ColSum(a, b, c, i + 1)
RECURSIVE MulCols(_, _, _, _, _)
MulCols(a, b, c, carry, acc) ==
    IF c > 2 * Len(a) THEN acc
    ELSE LET s == ColSum(a, b, c, 1) + carry
         IN  MulCols(a, b, c + 1, s \div Base, Append(acc, s % Base))
FMul(x, y) ==
    The({The({The({[i \in 1..NLimbs |-> p[i + FracLimbs]] :
                      p \in {RoundNearestEven(m, FALSE)}}) :
                 m \in {MulCols(a, b, 1, 0, <<>>)}}) : a \in {x}, b \in {y}})

\* the integer nearest to m, halves to even
RInt(m) ==
    LET whole == m[NLimbs]
        guard == m[FracLimbs] \div (Base \div 2)
        rest == (m[FracLimbs] % (Base \div 2) # 0)
                \/ (\E i \in 1..(FracLimbs - 1) : m[i] # 0)
    IN  IF guard = 1 /\ (rest \/ whole % 2 = 1) THEN whole + 1 ELSE whole

\* Python's round(x, 2) of a float, as the count of hundredths h: the double
\* returned is F(h, 100).  It rounds the exact value of x.
Hundredths(x) ==
    The({RInt(m) : m \in {The({MulStep(a, 100, 1, 0, <<>>) : a \in {x}})}})

\* round(x, 2) of a numpy.float64 (the result of np.mean or of arithmetic on
\* one), as the count of hundredths: numpy computes rint(x * 100.0) / 100.0,
\* so the product is rounded to a double before rint
NpHundredths(x) ==
    The({RInt(m) :
            m \in {The({The({RoundNearestEven(e, FALSE) :
                                e \in {MulStep(a, 100, 1, 0, <<>>)}}) : a \in {x}})}})

(***************************************************************************)
(* Exceptions.  An operation that raises yields an exception value; a      *)
(* method without a handler passes it on as its outcome.                   *)
(***************************************************************************)
ZeroDivisionError == [k |-> "ZeroDivisionError", n |-> 0, d |-> 1]
TypeError == [k |-> "TypeError", n |-> 0, d |-> 1]
AttributeError == [k |-> "AttributeError", n |-> 0, d |-> 1]
IsRaise(v) == v.k \in {"ZeroDivisionError", "TypeError", "AttributeError"}

\* a dictionary key that is not present
Absent == [k |-> "absent", n |-> 0, d |-> 1]
\* dict.get(key, default)
DictGet(v, default) == IF v.k = "absent" THEN default ELSE v

\* Python's  numerator / denominator
PyDiv(x, y) ==
    The({IF NonNumeric(a) \/ NonNumeric(b) THEN TypeError
         ELSE IF IsNum(b) /\ RIsZero(b) THEN ZeroDivisionError
         ELSE IF IsNum(a) /\ IsNum(b) THEN RDiv(a, b)
         ELSE NaN : a \in {x}, b \in {y}})

(***************************************************************************)
(* src/utils.py                                                            *)
(***************************************************************************)
safe_divide_nocheck(numerator, denominator, default) ==
    PyDiv(numerator, denominator)

safe_divide(numerator, denominator, default) ==
    The({IF (IsNum(d) /\ RIsZero(d)) \/ IsNa(d) \/ IsNa(n)
         THEN default
         ELSE PyDiv(n, d) : n \in {numerator}, d \in {denominator}})

calculate_percentage_change(current, previous) ==
    The({IF (IsNum(p) /\ RIsZero(p)) \/ IsNa(p) \/ IsNa(c)
         THEN Int2Num(0)
         ELSE PyMul(PyDiv(PySub(c, p), PyAbs(p)), Int2Num(100)) :
            c \in {current}, p \in {previous}})

(***************************************************************************)
(* Statement tables (pandas DataFrame): cols period columns, most recent   *)
(* first, and rows of <<name, values>>.  NoneTable is a table that is not  *)
(* a DataFrame at all.                                                     *)
(***************************************************************************)
Row(name, vals) == [name |-> name, vals |-> vals]
Table(cols, rows) == [k |-> "df", cols |-> cols, rows |-> rows]
EmptyTable == Table(0, <<>>)
NoneTable == [k |-> "none", cols |-> 0, rows |-> <<>>]

\* DataFrame.empty
DfEmpty(df) == df.cols = 0 \/ df.rows = <<>>

\* str.lower() on the row names that occur
LowerMap ==
    [s \in {"Total Revenue", "TOTAL REVENUE", "Total revenue", "Net Income",
            "Total Assets", "TOTAL ASSETS", "EBIT"} |->
        CASE s \in {"Total Revenue", "TOTAL REVENUE", "Total revenue"}
                 -> "total revenue"
          [] s = "Net Income" -> "net income"
          [] s \in {"Total Assets", "TOTAL ASSETS"} -> "total assets"
          [] s = "EBIT" -> "ebit"]
Lower(s) == IF s \in DOMAIN LowerMap THEN LowerMap[s] ELSE s

\* float(value) if not pd.isna(value) else 0.0
CellToFloat(value) ==
    IF IsNa(value) THEN Int2Num(0)
    ELSE IF IsNum(value) THEN value
    ELSE Int2Num(0)   \* float() raises ValueError, caught by _get_value

\* the first index position matching exactly / ignoring case, 0 if none
FirstWhere(df, P(_)) ==
    LET hits == {i \in 1..Len(df.rows) : P(df.rows[i].name)}
    IN  IF hits = {} THEN 0 ELSE CHOOSE i \in hits : \A j \in hits : i <= j

get_value_nofallback(df, row_name, col_index) ==
    IF df.k # "df" THEN Int2Num(0)
    ELSE IF DfEmpty(df) \/ col_index >= df.cols THEN Int2Num(0)
    ELSE LET exact == {i \in 1..Len(df.rows) : df.rows[i].name = row_name}
         IN  IF Cardinality(exact) = 1
             THEN CellToFloat(df.rows[CHOOSE i \in exact : TRUE].vals[col_index + 1])
             ELSE Int2Num(0)

\* ForensicAnalyzer._get_value
get_value(df, row_name, col_index) ==
    IF df.k # "df" THEN Int2Num(0)          \* AttributeError, caught
    ELSE IF DfEmpty(df) \/ col_index >= df.cols THEN Int2Num(0)
    ELSE LET exact == {i \in 1..Len(df.rows) : df.rows[i].name = row_name}
             ci == FirstWhere(df, LAMBDA nm : Lower(nm) = Lower(row_name))
         IN  IF Cardinality(exact) = 1
             THEN CellToFloat(df.rows[CHOOSE i \in exact : TRUE].vals[col_index + 1])
             ELSE IF Cardinality(exact) > 1
             THEN Int2Num(0)                \* .loc gives a frame: ValueError, caught
             ELSE IF ci # 0
             THEN CellToFloat(df.rows[ci].vals[col_index + 1])
             ELSE Int2Num(0)

(***************************************************************************)
(* src/forensic_analyzer.py: ForensicAnalyzer.  The analyzer is the record *)
(* fa of its fields balance_sheet, income_statement, cash_flow,            *)
(* stock_info, key_ratios (financial_data['key_ratios']) and shareholding. *)
(***************************************************************************)
EmptyDict == [x \in {} |-> 0]
Nil == [k |-> "nil"]
Raised(exc) == [k |-> "raise", exc |-> exc.k]

ScoreResult_possible(score, interpretation, risk_level, components, possible) ==
    [k |-> "ok", score |-> score, interpretation |-> interpretation,
     risk_level |-> risk_level, components |-> components,
     calculation_possible |-> TRUE]

ScoreResult(score, interpretation, risk_level, components, possible) ==
    [k |-> "ok", score |-> score, interpretation |-> interpretation,
     risk_level |-> risk_level, components |-> components,
     calculation_possible |-> possible]

\* m_score > -2.22
MScoreRiskLevelGeq(m) == IF ~RLt(m, Num(-222, 100)) THEN "HIGH" ELSE "LOW"
MScoreRiskLevel(m) == IF RGt(m, Num(-222, 100)) THEN "HIGH" ELSE "LOW"

\* z_score > 2.99 / > 1.81
ZScoreRiskLevelGeq(z) ==
    IF ~RLt(z, Num(299, 100)) THEN "LOW"
    ELSE IF ~RLt(z, Num(181, 100)) THEN "MEDIUM"
    ELSE "HIGH"
ZScoreRiskLevel(z) ==
    IF RGt(z, Num(299, 100)) THEN "LOW"
    ELSE IF RGt(z, Num(181, 100)) THEN "MEDIUM"
    ELSE "HIGH"

\* the unrounded m_score of lines 66-162; every operand is a finite number
\* because _get_value returns one
BeneishRaw(fa) ==
    LET bs == fa.balance_sheet
        is == fa.income_statement
        cf == fa.cash_flow
        one == Int2Num(1)
        zero == Int2Num(0)
        receivables_current == get_value(bs, "Accounts Receivable", 0)
        receivables_previous == get_value(bs, "Accounts Receivable", 1)
        revenue_current == get_value(is, "Total Revenue", 0)
        revenue_previous == get_value(is, "Total Revenue", 1)
        cogs_current == get_value(is, "Cost Of Revenue", 0)
        cogs_previous == get_value(is, "Cost Of Revenue", 1)
        assets_current == get_value(bs, "Total Assets", 0)
        assets_previous == get_value(bs, "Total Assets", 1)
        current_assets_current == get_value(bs, "Total Current Assets", 0)
        current_assets_previous == get_value(bs, "Total Current Assets", 1)
        ppe_current == get_value(bs, "Net PPE", 0)
        ppe_previous == get_value(bs, "Net PPE", 1)
        depreciation_current == PyAbs(get_value(cf, "Depreciation", 0))
        depreciation_previous == PyAbs(get_value(cf, "Depreciation", 1))
        sga_current == get_value(is, "Selling General And Administration", 0)
        sga_previous == get_value(is, "Selling General And Administration", 1)
        liabilities_current ==
            get_value(bs, "Total Liabilities Net Minority Interest", 0)
        liabilities_previous ==
            get_value(bs, "Total Liabilities Net Minority Interest", 1)
        net_income == get_value(is, "Net Income", 0)
        operating_cf == get_value(cf, "Operating Cash Flow", 0)
        dsri == safe_divide(safe_divide(receivables_current, revenue_current, zero),
                            safe_divide(receivables_previous, revenue_previous, zero),
                            one)
        gmi == safe_divide(
                   safe_divide(PySub(revenue_previous, cogs_previous),
                               revenue_previous, zero),
                   safe_divide(PySub(revenue_current, cogs_current),
                               revenue_current, zero),
                   one)
        non_current_assets_current ==
            PySub(PySub(assets_current, current_assets_current), ppe_current)
        non_current_assets_previous ==
            PySub(PySub(assets_previous, current_assets_previous), ppe_previous)
        aqi == safe_divide(
                   safe_divide(non_current_assets_current, assets_current, zero),
                   safe_divide(non_current_assets_previous, assets_previous, zero),
                   one)
        sgi == safe_divide(revenue_current, revenue_previous, one)
        depi == safe_divide(
                    safe_divide(depreciation_previous,
                                PyAdd(depreciation_previous, ppe_previous), zero),
                    safe_divide(depreciation_current,
                                PyAdd(depreciation_current, ppe_current), zero),
                    one)
        sgai == safe_divide(safe_divide(sga_current, revenue_current, zero),
                            safe_divide(sga_previous, revenue_previous, zero),
                            one)
        lvgi == safe_divide(safe_divide(liabilities_current, assets_current, zero),
                            safe_divide(liabilities_previous, assets_previous, zero),
                            one)
        tata == safe_divide(PySub(net_income, operating_cf), assets_current, zero)
        m_score ==
            PySub(PyAdd(PySub(PyAdd(PyAdd(PyAdd(PyAdd(PyAdd(
                Num(-484, 100),
                PyMul(Num(920, 1000), dsri)),
                PyMul(Num(528, 1000), gmi)),
                PyMul(Num(404, 1000), aqi)),
                PyMul(Num(892, 1000), sgi)),
                PyMul(Num(115, 1000), depi)),
                PyMul(Num(172, 1000), sgai)),
                PyMul(Num(4679, 1000), tata)),
                PyMul(Num(327, 1000), lvgi))
    IN  [m_score |-> m_score,
         components |->
             [DSRI |-> PyRound(dsri, 1000), GMI |-> PyRound(gmi, 1000),
              AQI |-> PyRound(aqi, 1000), SGI |-> PyRound(sgi, 1000),
              DEPI |-> PyRound(depi, 1000), SGAI |-> PyRound(sgai, 1000),
              LVGI |-> PyRound(lvgi, 1000), TATA |-> PyRound(tata, 1000)]]

\* the body of the outer try of calculate_beneish_m_score (lines 48-188)
BeneishTryBody(fa) ==
    IF fa.balance_sheet.k # "df" THEN Raised(AttributeError)
    ELSE IF DfEmpty(fa.balance_sheet)
    THEN ScoreResult(NoneV, "Insufficient financial data for M-Score calculation",
                     "UNKNOWN", EmptyDict, FALSE)
    ELSE IF fa.income_statement.k # "df" THEN Raised(AttributeError)
    ELSE IF DfEmpty(fa.income_statement)
    THEN ScoreResult(NoneV, "Insufficient financial data for M-Score calculation",
                     "UNKNOWN", EmptyDict, FALSE)
    ELSE IF fa.balance_sheet.cols < 2 \/ fa.income_statement.cols < 2
    THEN ScoreResult(NoneV, "Need at least 2 years of data for M-Score calculation",
                     "UNKNOWN", EmptyDict, FALSE)
    ELSE The({LET level == MScoreRiskLevel(raw.m_score)
              IN  ScoreResult(PyRound(raw.m_score, 1000),
                      IF level = "HIGH"
                      THEN "M-Score suggests possible earnings manipulation. Score > -2.22 indicates higher likelihood of manipulation."
                      ELSE "M-Score suggests lower likelihood of earnings manipulation. Score <= -2.22 indicates company is likely not manipulating earnings.",
                      level, raw.components, TRUE) : raw \in {BeneishRaw(fa)}})

calculate_beneish_m_score_notry(fa) == BeneishTryBody(fa)

\* ForensicAnalyzer.calculate_beneish_m_score: the outer except (lines 190-197);
\* the interpretation is this text followed by the exception's message
calculate_beneish_m_score(fa) ==
    The({IF r.k = "raise"
         THEN ScoreResult(NoneV, "Error calculating M-Score", "UNKNOWN",
                          EmptyDict, FALSE)
         ELSE r : r \in {BeneishTryBody(fa)}})

\* the unrounded z_score of lines 233-257, or the exception raised there
AltmanRaw(fa) ==
    LET bs == fa.balance_sheet
        is == fa.income_statement
        zero == Int2Num(0)
        current_assets == get_value(bs, "Total Current Assets", 0)
        current_liabilities == get_value(bs, "Total Current Liabilities", 0)
        total_assets == get_value(bs, "Total Assets", 0)
        total_liabilities ==
            get_value(bs, "Total Liabilities Net Minority Interest", 0)
        retained_earnings == get_value(bs, "Retained Earnings", 0)
        ebit == get_value(is, "EBIT", 0)
        revenue == get_value(is, "Total Revenue", 0)
        market_cap == DictGet(fa.stock_info.market_cap, zero)
        working_capital == PySub(current_assets, current_liabilities)
        x1 == safe_divide(working_capital, total_assets, zero)
        x2 == safe_divide(retained_earnings, total_assets, zero)
        x3 == safe_divide(ebit, total_assets, zero)
        x4 == safe_divide(market_cap, total_liabilities, zero)
        x5 == safe_divide(revenue, total_assets, zero)
        z_score ==
            PyAdd(PyAdd(PyAdd(PyAdd(
                PyMul(Num(12, 10), x1),
                PyMul(Num(14, 10), x2)),
                PyMul(Num(33, 10), x3)),
                PyMul(Num(6, 10), x4)),
                PyMul(Int2Num(1), x5))
    IN  IF IsRaise(x4) THEN [raised |-> TRUE, z_score |-> zero,
                             components |-> EmptyDict]
        ELSE [raised |-> FALSE, z_score |-> z_score,
              components |->
                  [Working_Capital_to_Total_Assets |-> PyRound(x1, 1000),
                   Retained_Earnings_to_Total_Assets |-> PyRound(x2, 1000),
                   EBIT_to_Total_Assets |-> PyRound(x3, 1000),
                   Market_Value_to_Total_Liabilities |-> PyRound(x4, 1000),
                   Sales_to_Total_Assets |-> PyRound(x5, 1000)]]

\* the body of the outer try of calculate_altman_z_score (lines 218-283)
AltmanTryBody(fa) ==
    IF fa.balance_sheet.k # "df" THEN Raised(AttributeError)
    ELSE IF DfEmpty(fa.balance_sheet)
    THEN ScoreResult(NoneV, "Insufficient financial data for Z-Score calculation",
                     "UNKNOWN", EmptyDict, FALSE)
    ELSE IF fa.income_statement.k # "df" THEN Raised(AttributeError)
    ELSE IF DfEmpty(fa.income_statement)
    THEN ScoreResult(NoneV, "Insufficient financial data for Z-Score calculation",
                     "UNKNOWN", EmptyDict, FALSE)
    ELSE The({LET level == ZScoreRiskLevel(raw.z_score)
              IN  IF raw.raised
                  THEN ScoreResult(NoneV, "Error calculating Z-Score components",
                                   "UNKNOWN", EmptyDict, FALSE)  \* inner except
                  ELSE ScoreResult(PyRound(raw.z_score, 1000),
                           CASE level = "LOW" -> "Z-Score indicates Safe Zone. Low probability of bankruptcy."
                             [] level = "MEDIUM" -> "Z-Score indicates Grey Zone. Moderate risk of financial distress."
                             [] OTHER -> "Z-Score indicates Distress Zone. High probability of bankruptcy within 2 years.",
                           level, raw.components, TRUE) : raw \in {AltmanRaw(fa)}})

\* ForensicAnalyzer.calculate_altman_z_score: the outer except (lines 285-292);
\* the interpretation is this text followed by the exception's message
calculate_altman_z_score(fa) ==
    The({IF r.k = "raise"
         THEN ScoreResult(NoneV, "Error calculating Z-Score", "UNKNOWN",
                          EmptyDict, FALSE)
         ELSE r : r \in {AltmanTryBody(fa)}})

\* the body of analyze_promoter_pledge; escalate: a short ratio above 10
\* sets the risk level to HIGH (line 331)
PledgeResult(fa, escalate) ==
    LET zero == Int2Num(0)
        insider_ownership == DictGet(fa.shareholding.insider_ownership, zero)
        institutional_ownership ==
            DictGet(fa.shareholding.institutional_ownership, zero)
        short_ratio == DictGet(fa.shareholding.short_ratio, zero)
        insider_flag ==
            IF PyLt(insider_ownership, Int2Num(1))
            THEN <<"Very low insider ownership (< 1%) - management may lack confidence">>
            ELSE IF PyGt(insider_ownership, Int2Num(75))
            THEN <<"Very high insider ownership (> 75%) - potential corporate governance concerns">>
            ELSE <<>>
        institutional_flag ==
            IF PyLt(institutional_ownership, Int2Num(10))
            THEN <<"Low institutional ownership (< 10%) - may indicate lack of institutional confidence">>
            ELSE <<>>
        short_flag ==
            IF PyGt(short_ratio, Int2Num(10))
            THEN <<"High short interest ratio - significant bearish sentiment">>
            ELSE <<>>
        flags == insider_flag \o institutional_flag \o short_flag
    IN  IF NonNumeric(insider_ownership) \/ NonNumeric(institutional_ownership)
           \/ NonNumeric(short_ratio)
        THEN Raised(TypeError)
        ELSE [k |-> "ok",
              insider_ownership_percent |-> PyRound(insider_ownership, 100),
              institutional_ownership_percent |->
                  PyRound(institutional_ownership, 100),
              risk_level |-> IF escalate /\ short_flag # <<>> THEN "HIGH"
                             ELSE IF insider_flag # <<>> THEN "MEDIUM"
                             ELSE "LOW",
              red_flags |-> flags,
              interpretation |->
                  IF flags = <<>>
                  THEN "Shareholding pattern appears normal with no significant red flags."
                  ELSE CASE Len(flags) = 1
                              -> "Found 1 potential concerns in shareholding pattern."
                         [] Len(flags) = 2
                              -> "Found 2 potential concerns in shareholding pattern."
                         [] OTHER
                              -> "Found 3 potential concerns in shareholding pattern."]

analyze_promoter_pledge_noescalate(fa) == PledgeResult(fa, FALSE)

\* ForensicAnalyzer.analyze_promoter_pledge (no exception handler)
analyze_promoter_pledge(fa) == PledgeResult(fa, TRUE)

\* one red flag and the amount (in hundredths: the literal 0.2 is F(20, 100))
\* that the rule adds to risk_score
Flag(category, flag, severity, inc) ==
    [category |-> category, flag |-> flag, severity |-> severity, inc |-> inc]

\* rules 1-5 of detect_financial_red_flags (lines 352-433), in order; with
\* exclusive = FALSE the second test of a rule is an `if`, not an `elif`
RedFlagRules(fa, exclusive) ==
    LET zero == Int2Num(0)
        profit_margin == DictGet(fa.key_ratios.profit_margin, zero)
        debt_to_equity == DictGet(fa.key_ratios.debt_to_equity, zero)
        current_ratio == DictGet(fa.key_ratios.current_ratio, zero)
        roe == DictGet(fa.key_ratios.roe, zero)
        is == fa.income_statement
        revenue_growth ==
            calculate_percentage_change(get_value(is, "Total Revenue", 0),
                                        get_value(is, "Total Revenue", 1))
        r1a == IF PyLt(profit_margin, zero)
               THEN <<Flag("Profitability", "Negative profit margin", "HIGH", 20)>>
               ELSE <<>>
        r1b == IF (~exclusive \/ r1a = <<>>) /\ PyLt(profit_margin, Int2Num(5))
               THEN <<Flag("Profitability", "Low profit margin", "MEDIUM", 10)>>
               ELSE <<>>
        r2a == IF PyGt(debt_to_equity, Int2Num(2))
               THEN <<Flag("Leverage", "High debt-to-equity ratio", "HIGH", 20)>>
               ELSE <<>>
        r2b == IF (~exclusive \/ r2a = <<>>) /\ PyGt(debt_to_equity, Int2Num(1))
               THEN <<Flag("Leverage", "Elevated debt-to-equity ratio", "MEDIUM", 10)>>
               ELSE <<>>
        r3a == IF PyLt(current_ratio, Int2Num(1))
               THEN <<Flag("Liquidity", "Current ratio below 1 - potential liquidity issues", "HIGH", 20)>>
               ELSE <<>>
        r3b == IF (~exclusive \/ r3a = <<>>) /\ PyLt(current_ratio, Num(15, 10))
               THEN <<Flag("Liquidity", "Low current ratio", "MEDIUM", 10)>>
               ELSE <<>>
        r4 == IF PyLt(roe, zero)
              THEN <<Flag("Profitability", "Negative Return on Equity", "HIGH", 15)>>
              ELSE <<>>
        r5 == IF ~DfEmpty(is) /\ is.cols >= 2 /\ PyLt(revenue_growth, Int2Num(-10))
              THEN <<Flag("Growth", "Significant revenue decline", "HIGH", 15)>>
              ELSE <<>>
    IN  IF NonNumeric(profit_margin) \/ NonNumeric(debt_to_equity)
           \/ NonNumeric(current_ratio) \/ NonNumeric(roe)
        THEN [raised |-> TRUE, exc |-> TypeError, flags |-> <<>>]
        ELSE IF is.k # "df"
        THEN [raised |-> TRUE, exc |-> AttributeError, flags |-> <<>>]
        ELSE [raised |-> FALSE, exc |-> TypeError,
              flags |-> r1a \o r1b \o r2a \o r2b \o r3a \o r3b \o r4 \o r5]

Accumulate_overwrite(flags, i, acc) ==
    IF flags = <<>> THEN acc ELSE F(flags[Len(flags)].inc, 100)

\* risk_score after the += of every flag, starting from 0.0
RECURSIVE Accumulate(_, _, _)
Accumulate(flags, i, acc) ==
    IF i > Len(flags) THEN acc
    ELSE Accumulate(flags, i + 1, FAdd(acc, F(flags[i].inc, 100)))

\* 'HIGH' if score > 0.6 else 'MEDIUM' if score > 0.3 else 'LOW'
RiskLevel63(score) ==
    The({IF FGt(x, F(6, 10)) THEN "HIGH"
         ELSE IF FGt(x, F(3, 10)) THEN "MEDIUM"
         ELSE "LOW" : x \in {score}})

RedFlagsResult(fa, exclusive, capped) ==
    The({IF rules.raised THEN Raised(rules.exc)
         ELSE The({[k |-> "ok",
                    red_flags |-> [i \in 1..Len(rules.flags) |->
                                      [category |-> rules.flags[i].category,
                                       flag |-> rules.flags[i].flag,
                                       severity |-> rules.flags[i].severity]],
                    total_flags |-> Len(rules.flags),
                    risk_score |-> Hundredths(risk_score),
                    risk_level |-> RiskLevel63(risk_score)] :
                  risk_score \in
                      {The({IF capped THEN FMin(sum, F(1, 1)) ELSE sum :
                               sum \in {Accumulate(rules.flags, 1,
                                                   ZeroLimbs(NLimbs))}})}}) :
            rules \in {RedFlagRules(fa, exclusive)}})

detect_financial_red_flags_if_nocap(fa) == RedFlagsResult(fa, FALSE, FALSE)

\* ForensicAnalyzer.detect_financial_red_flags (no exception handler);
\* risk_score is held as its count of hundredths h, the double is F(h, 100)
detect_financial_red_flags(fa) == RedFlagsResult(fa, TRUE, TRUE)

\* numpy.mean of a non-empty list of doubles
RECURSIVE SumFrom(_, _, _)
SumFrom(xs, i, acc) ==
    IF i > Len(xs) THEN acc ELSE SumFrom(xs, i + 1, FAdd(acc, xs[i]))
NpMean(xs) == The({FDivInt(SumFrom(v, 2, v[1]), Len(v)) : v \in {xs}})

\* risk_scores without the red-flag score appended
ForensicContributions_scores(m_score, z_score, red_flags) ==
    The({(IF m.calculation_possible
          THEN <<IF m.risk_level = "HIGH" THEN 100 ELSE 30>> ELSE <<>>)
         \o (IF z.calculation_possible
             THEN <<IF z.risk_level = "HIGH" THEN 100
                    ELSE IF z.risk_level = "MEDIUM" THEN 50 ELSE 20>>
             ELSE <<>>) : m \in {m_score}, z \in {z_score}, r \in {red_flags}})

\* the list risk_scores of generate_forensic_report (lines 496-501), in
\* hundredths
ForensicContributions(m_score, z_score, red_flags) ==
    The({(IF m.calculation_possible
          THEN <<IF m.risk_level = "HIGH" THEN 100 ELSE 30>> ELSE <<>>)
         \o (IF z.calculation_possible
             THEN <<IF z.risk_level = "HIGH" THEN 100
                    ELSE IF z.risk_level = "MEDIUM" THEN 50 ELSE 20>>
             ELSE <<>>)
         \o <<r.risk_score>> : m \in {m_score}, z \in {z_score}, r \in {red_flags}})

\* the wall clock that datetime.now() reads, in ticks
VARIABLE now

\* ForensicAnalyzer.generate_forensic_report (no exception handler)
\* lines 495-514, after the four calls; a call that raised ends the method
ForensicReport(m_score, z_score, pledge_analysis, red_flags) ==
    IF m_score.k = "raise" THEN m_score
    ELSE IF z_score.k = "raise" THEN z_score
    ELSE IF pledge_analysis.k = "raise" THEN pledge_analysis
    ELSE IF red_flags.k = "raise" THEN red_flags
    ELSE The({The({[k |-> "ok",
                    timestamp |-> now,
                    beneish_m_score |-> m_score,
                    altman_z_score |-> z_score,
                    promoter_pledge_analysis |-> pledge_analysis,
                    financial_red_flags |-> red_flags,
                    overall_risk_score |-> NpHundredths(overall_risk_score),
                    overall_risk_level |-> RiskLevel63(overall_risk_score)] :
                  overall_risk_score \in
                      {IF risk_scores # <<>>
                       THEN NpMean([i \in 1..Len(risk_scores) |->
                                       F(risk_scores[i], 100)])
                       ELSE F(5, 10)}}) :
             risk_scores \in {ForensicContributions(m_score, z_score, red_flags)}})

generate_forensic_report(fa) ==
    The({ForensicReport(m_score, z_score, pledge_analysis, red_flags) :
            m_score \in {calculate_beneish_m_score(fa)},
            z_score \in {calculate_altman_z_score(fa)},
            pledge_analysis \in {analyze_promoter_pledge(fa)},
            red_flags \in {detect_financial_red_flags(fa)}})

(***************************************************************************)
(* src/pattern_detector.py: the aggregation of generate_pattern_report     *)
(* over the five detectors' risk levels, and main.analyze_stock.           *)
(***************************************************************************)
\* the risk levels of the five detectors' results
Levels(vol, price, gap, div, vola) ==
    [volume_spikes |-> vol, price_anomalies |-> price, gap_movements |-> gap,
     price_volume_divergence |-> div, volatility_metrics |-> vola]

Tiered_known(level, high, medium, low) ==
    IF level = "HIGH" THEN high
    ELSE IF level = "MEDIUM" THEN medium ELSE IF level = "LOW" THEN low ELSE 0

Tiered_flat(level, high, medium, low) == IF level = "HIGH" THEN high ELSE low

Tiered(level, high, medium, low) ==
    IF level = "HIGH" THEN high ELSE IF level = "MEDIUM" THEN medium ELSE low

\* the list risk_scores of generate_pattern_report (lines 323-356), in
\* hundredths
PatternContributions(levels) ==
    << Tiered(levels.volume_spikes, 80, 50, 20),
       Tiered(levels.price_anomalies, 70, 40, 20),
       Tiered(levels.gap_movements, 60, 40, 20),
       IF levels.price_volume_divergence = "MEDIUM" THEN 50 ELSE 20,
       Tiered(levels.volatility_metrics, 70, 40, 20) >>

\* the scores of generate_pattern_report (lines 358-369)
PatternOverall(levels) ==
    The({The({[timestamp |-> now,
               overall_pattern_risk_score |-> NpHundredths(overall_risk_score),
               overall_risk_level |->
                   IF FGt(overall_risk_score, F(6, 10)) THEN "HIGH"
                   ELSE IF FGt(overall_risk_score, F(4, 10)) THEN "MEDIUM"
                   ELSE "LOW"] :
             overall_risk_score \in
                 {NpMean([i \in 1..Len(risk_scores) |-> F(risk_scores[i], 100)])}}) :
        risk_scores \in {PatternContributions(levels)}})

(***************************************************************************)
(* src/pattern_detector.py: PatternDetector.  historical_data is a frame:  *)
(* the set of its columns and its bars, oldest first, a bar holding the    *)
(* whole-number Open, Close and Volume of one day (zero or more); the date *)
(* of a bar is its position.  What the detectors compute from the bars is  *)
(* held as exact rationals, a standard deviation as its square.            *)
(***************************************************************************)
Bar(open, close, volume) == [Open |-> open, Close |-> close, Volume |-> volume]
Frame(columns, bars) == [k |-> "df", columns |-> columns, bars |-> bars]
\* historical_data that is None
NoneFrame == [k |-> "none", columns |-> {}, bars |-> <<>>]
KeyError == [k |-> "KeyError", n |-> 0, d |-> 1]

\* PatternDetector.__init__
PatternDetector(historical_data) ==
    IF historical_data.k # "df" THEN Raised(AttributeError)
    ELSE [k |-> "ok", data |-> historical_data,
          has_data |-> ~(historical_data.columns = {}
                         \/ historical_data.bars = <<>>)]

\* self.data[name]
Column(pd, name) ==
    [i \in 1..Len(pd.data.bars) |-> Int2Num(pd.data.bars[i][name])]

\* the sum of xs[a..b], by halves
RECURSIVE SumOver(_, _, _)
SumOver(xs, a, b) ==
    IF a > b THEN Int2Num(0)
    ELSE IF a = b THEN xs[a]
    ELSE RAdd(SumOver(xs, a, (a + b) \div 2), SumOver(xs, (a + b) \div 2 + 1, b))
\* Series.mean() of xs[a..b]; not-a-number for no value
MeanOver(xs, a, b) ==
    IF a > b THEN NaN ELSE RDiv(SumOver(xs, a, b), Int2Num(b - a + 1))
\* the square of Series.std() (ddof = 1) of xs[a..b]; not-a-number for fewer
\* than 2 values
VarOver(xs, a, b) ==
    IF b - a + 1 < 2 THEN NaN
    ELSE The({RDiv(RSub(q, RDiv(RMul(t, t), Int2Num(b - a + 1))),
                   Int2Num(b - a)) :
                 t \in {SumOver(xs, a, b)}, q \in {SumOver([i \in a..b |-> RMul(xs[i], xs[i])], a, b)}})

\* list.sort(key=..., reverse=True): the entries in descending order of their
\* keys, entries of equal keys in their original order
Sorted(entries, keys) ==
    LET n == Len(keys)
        Rank(i) == Cardinality({j \in 1..n : RGt(keys[j], keys[i])})
                   + Cardinality({j \in 1..(i - 1) : keys[j] = keys[i]}) + 1
    IN  [p \in 1..n |-> entries[CHOOSE i \in 1..n : Rank(i) = p]]

\* entries[:10]
Top10(entries) ==
    SubSeq(entries, 1, IF Len(entries) < 10 THEN Len(entries) ELSE 10)

LevelByCount_flat(count, high, medium) ==
    IF count > high THEN "HIGH" ELSE "LOW"

\* 'HIGH' if count > high, 'MEDIUM' if count > medium, else 'LOW'
LevelByCount(count, high, medium) ==
    IF count > high THEN "HIGH" ELSE IF count > medium THEN "MEDIUM" ELSE "LOW"

SpikeBound_avg(avg_volume, threshold) == avg_volume

\* threshold * avg_volume, above which a bar's volume is a spike (line 47)
SpikeBound(avg_volume, threshold) == RMul(avg_volume, threshold)

\* PatternDetector.detect_volume_spikes; row['Close'] raises KeyError when a
\* bar is flagged and the frame has no Close column
detect_volume_spikes(pd, threshold) ==
    IF ~pd.has_data \/ "Volume" \notin pd.data.columns
    THEN [k |-> "ok", spikes_detected |-> 0, spike_dates |-> <<>>,
          average_volume |-> 0, risk_level |-> "UNKNOWN"]
    ELSE The({The({The({
        IF volume_spikes # <<>> /\ "Close" \notin pd.data.columns
        THEN Raised(KeyError)
        ELSE The({[k |-> "ok",
                   spikes_detected |-> Len(spike_dates),
                   spike_dates |-> Top10(spike_dates),
                   average_volume |-> avg_volume.n \div avg_volume.d,
                   risk_level |-> LevelByCount(Len(spike_dates), 10, 5)] :
                 spike_dates \in
                     {The({Sorted(unsorted,
                                  [e \in 1..Len(unsorted) |-> unsorted[e].multiplier]) :
                             unsorted \in
                                 {[e \in 1..Len(volume_spikes) |->
                                      [date |-> volume_spikes[e],
                                       volume |-> pd.data.bars[volume_spikes[e]].Volume,
                                       multiplier |->
                                           PyRound(RDiv(volume[volume_spikes[e]],
                                                        avg_volume), 100),
                                       close_price |->
                                           pd.data.bars[volume_spikes[e]].Close]]}})}}) :
            volume_spikes \in
                {The({SelectSeq([i \in 1..Len(volume) |-> i],
                               LAMBDA i : RGt(volume[i], bound)) :
                         bound \in {SpikeBound(avg_volume, threshold)}})}}) :
        avg_volume \in {MeanOver(volume, 1, Len(volume))}}) :
        volume \in {Column(pd, "Volume")}})

\* utils.calculate_moving_average: data.rolling(window, min_periods=1).mean()
calculate_moving_average(data, window) ==
    [i \in 1..Len(data) |->
        MeanOver(data, IF i - window + 1 < 1 THEN 1 ELSE i - window + 1, i)]

\* the square of data.rolling(window).std(): min_periods is the window, so
\* the first window - 1 values are not-a-number
RollingVar(data, window) ==
    [i \in 1..Len(data) |->
        IF i < window THEN NaN ELSE VarOver(data, i - window + 1, i)]

\* close > ma + 2 * std  or  close < ma - 2 * std, var the square of std;
\* false when std is not-a-number
OutsideBands(close, ma, var) ==
    /\ IsNum(var)
    /\ \E dev \in {RSub(close, ma)} :
          ~RIsZero(dev) /\ RGt(RMul(dev, dev), RMul(Int2Num(4), var))

\* PatternDetector.detect_price_anomalies
detect_price_anomalies(pd, window) ==
    IF ~pd.has_data \/ "Close" \notin pd.data.columns
    THEN [k |-> "ok", anomalies_detected |-> 0, anomaly_dates |-> <<>>,
          risk_level |-> "UNKNOWN"]
    ELSE The({The({The({The({
        [k |-> "ok",
         anomalies_detected |-> Len(anomaly_dates),
         anomaly_dates |-> Top10(anomaly_dates),
         risk_level |-> LevelByCount(Len(anomaly_dates), 15, 8)] :
            anomaly_dates \in
                {The({Sorted(unsorted,
                             [e \in 1..Len(unsorted) |->
                                 RAbs(unsorted[e].deviation_percent)]) :
                        unsorted \in
                            {[e \in 1..Len(anomalies) |->
                                 [date |-> anomalies[e],
                                  price |-> close[anomalies[e]],
                                  moving_average |-> PyRound(ma[anomalies[e]], 100),
                                  deviation_percent |->
                                      PyRound(RMul(RDiv(RSub(close[anomalies[e]],
                                                             ma[anomalies[e]]),
                                                        ma[anomalies[e]]),
                                                   Int2Num(100)), 100),
                                  type |-> IF RGt(close[anomalies[e]], ma[anomalies[e]])
                                           THEN "SPIKE" ELSE "DROP"]]}})}}) :
            anomalies \in
                {SelectSeq([i \in 1..Len(close) |-> i],
                           LAMBDA i : OutsideBands(close[i], ma[i], var[i]))}}) :
            var \in {RollingVar(close, window)},
            ma \in {calculate_moving_average(close, window)}}) :
        close \in {Column(pd, "Close")}})

GapDownCount_all(gap_dates) == Len(gap_dates)

\* sum(1 for g in gap_dates if g['type'] == 'GAP_DOWN')
GapDownCount(gap_dates) ==
    Cardinality({e \in 1..Len(gap_dates) : gap_dates[e].type = "GAP_DOWN"})

\* PatternDetector.detect_gap_movements; the first bar has no previous close
detect_gap_movements(pd, gap_threshold) ==
    IF ~pd.has_data \/ "Open" \notin pd.data.columns
       \/ "Close" \notin pd.data.columns
    THEN [k |-> "ok", gaps_detected |-> 0, gap_dates |-> <<>>,
          risk_level |-> "UNKNOWN"]
    ELSE The({The({The({The({
        [k |-> "ok",
         gaps_detected |-> Len(gap_dates),
         gap_dates |-> Top10(gap_dates),
         gap_up_count |->
             Cardinality({e \in 1..Len(gap_dates) : gap_dates[e].type = "GAP_UP"}),
         gap_down_count |-> gap_down_count,
         risk_level |-> LevelByCount(gap_down_count, 5, 2)] :
            gap_down_count \in {GapDownCount(gap_dates)}}) :
            gap_dates \in
                {The({Sorted(unsorted,
                             [e \in 1..Len(unsorted) |->
                                 RAbs(unsorted[e].gap_percent)]) :
                        unsorted \in
                            {[e \in 1..Len(significant_gaps) |->
                                 [date |-> significant_gaps[e],
                                  gap_percent |->
                                      PyRound(gap_percent[significant_gaps[e]], 100),
                                  open_price |-> pd.data.bars[significant_gaps[e]].Open,
                                  previous_close |->
                                      pd.data.bars[significant_gaps[e] - 1].Close,
                                  type |-> IF RGt(gap_percent[significant_gaps[e]],
                                                  Int2Num(0))
                                           THEN "GAP_UP" ELSE "GAP_DOWN"]]}})}}) :
            significant_gaps \in
                {SelectSeq([i \in 1..Len(gap_percent) |-> i],
                           LAMBDA i : PyGt(PyAbs(gap_percent[i]), gap_threshold))}}) :
        gap_percent \in
            {[i \in 1..Len(pd.data.bars) |->
                 IF i = 1 THEN NaN
                 ELSE RMul(RDiv(Int2Num(pd.data.bars[i].Open
                                        - pd.data.bars[i - 1].Close),
                                Int2Num(pd.data.bars[i - 1].Close)),
                           Int2Num(100))]}})

\* detect_price_volume_divergence from `recent_data = self.data.tail(20)` on,
\* for a series that has min_bars bars or more in the tail.  numpy's float
\* division raises nothing: x / 0 is not-a-number for x = 0 and infinite
\* otherwise
Divergence(pd, min_bars) ==
    LET NpDiv(x, y) ==
            The({IF ~RIsZero(b) THEN RDiv(a, b)
                 ELSE IF RIsZero(a) THEN NaN
                 ELSE [k |-> "inf", n |-> IF a.n > 0 THEN 1 ELSE -1, d |-> 1] :
                    a \in {x}, b \in {y}})
        NpPercent(x) == IF IsNum(x) THEN RMul(x, Int2Num(100)) ELSE x
        NpGt(x, c) == (IsNum(x) /\ RGt(x, c)) \/ (x.k = "inf" /\ x.n > 0)
        NpLt(x, c) == (IsNum(x) /\ RLt(x, c)) \/ (x.k = "inf" /\ x.n < 0)
        NpRound(x, scale) == IF IsNum(x) THEN PyRound(x, scale) ELSE x
        n == Len(pd.data.bars)
        first == IF n > 20 THEN n - 19 ELSE 1
        len == n - first + 1
        last5 == IF len < 5 THEN first ELSE n - 4
        first5 == IF len < 5 THEN n ELSE first + 4
    IN  IF len < min_bars
        THEN [k |-> "ok", divergence_detected |-> FALSE, divergence_type |-> "None",
              risk_level |-> "UNKNOWN",
              interpretation |-> "Insufficient recent data for divergence analysis"]
        ELSE The({The({
            LET bearish == NpGt(price_trend, Int2Num(5))
                           /\ NpLt(volume_trend, Int2Num(-20))
                bullish == ~bearish /\ NpLt(price_trend, Int2Num(-5))
                           /\ NpGt(volume_trend, Int2Num(20))
            IN  [k |-> "ok",
                 divergence_detected |-> bearish \/ bullish,
                 divergence_type |-> IF bearish THEN "BEARISH"
                                     ELSE IF bullish THEN "BULLISH" ELSE "None",
                 price_trend_percent |-> NpRound(price_trend, 100),
                 volume_trend_percent |-> NpRound(volume_trend, 100),
                 risk_level |-> IF bearish THEN "MEDIUM" ELSE "LOW",
                 interpretation |->
                     IF bearish
                     THEN "Bearish divergence: Price rising on declining volume - potential weakness"
                     ELSE IF bullish
                     THEN "Bullish divergence: Price falling on rising volume - potential accumulation"
                     ELSE "No significant price-volume divergence detected"] :
                price_trend \in
                    {NpPercent(NpDiv(RSub(close[n], close[first]), close[first]))},
                volume_trend \in
                    {The({NpPercent(NpDiv(RSub(volume_ma_end, volume_ma_start),
                                          volume_ma_start)) :
                             volume_ma_start \in {MeanOver(volume, first, first5)},
                             volume_ma_end \in {MeanOver(volume, last5, n)}})}}) :
            close \in {Column(pd, "Close")}, volume \in {Column(pd, "Volume")}})

detect_price_volume_divergence_nomin(pd) ==
    IF ~pd.has_data \/ "Close" \notin pd.data.columns
       \/ "Volume" \notin pd.data.columns
    THEN [k |-> "ok", divergence_detected |-> FALSE, divergence_type |-> "None",
          risk_level |-> "UNKNOWN",
          interpretation |-> "Insufficient data for divergence analysis"]
    ELSE Divergence(pd, 1)

\* PatternDetector.detect_price_volume_divergence
detect_price_volume_divergence(pd) ==
    IF ~pd.has_data \/ "Close" \notin pd.data.columns
       \/ "Volume" \notin pd.data.columns
    THEN [k |-> "ok", divergence_detected |-> FALSE, divergence_type |-> "None",
          risk_level |-> "UNKNOWN",
          interpretation |-> "Insufficient data for divergence analysis"]
    ELSE Divergence(pd, 10)

\* PatternDetector.calculate_volatility_metrics: returns are the day-to-day
\* relative changes of Close; volatility = std * sqrt(252) * 100 exceeds 50
\* when std squared exceeds 2500/2520000 and 30 when it exceeds 900/2520000;
\* its value is kept unevaluated, and is not-a-number when std is
calculate_volatility_metrics(pd) ==
    IF ~pd.has_data \/ "Close" \notin pd.data.columns
    THEN [k |-> "ok", volatility |-> 0, risk_level |-> "UNKNOWN"]
    ELSE The({The({The({
        [k |-> "ok",
         annualized_volatility |->
             IF IsNum(var)
             THEN [k |-> "sqrt(var*252)*100", n |-> var.n, d |-> var.d]
             ELSE NaN,
         risk_level |-> IF PyGt(var, Num(1, 1008)) THEN "HIGH"
                        ELSE IF PyGt(var, Num(1, 2800)) THEN "MEDIUM"
                        ELSE "LOW"] :
            var \in {VarOver(returns, 1, Len(returns))}}) :
            returns \in
                {[i \in 1..(Len(close) - 1) |->
                     RDiv(RSub(close[i + 1], close[i]), close[i])]}}) :
        close \in {Column(pd, "Close")}})

\* PatternDetector.generate_pattern_report: the five detectors with their
\* default arguments, then the aggregation; a detector that raised ends it
generate_pattern_report(pd) ==
    The({IF volume_spikes.k = "raise" THEN volume_spikes
         ELSE The({[k |-> "ok",
                    timestamp |-> overall.timestamp,
                    volume_spikes |-> volume_spikes,
                    price_anomalies |-> price_anomalies,
                    gap_movements |-> gap_movements,
                    price_volume_divergence |-> divergence,
                    volatility_metrics |-> volatility,
                    overall_pattern_risk_score |-> overall.overall_pattern_risk_score,
                    overall_risk_level |-> overall.overall_risk_level] :
                  overall \in
                      {PatternOverall(Levels(volume_spikes.risk_level,
                                             price_anomalies.risk_level,
                                             gap_movements.risk_level,
                                             divergence.risk_level,
                                             volatility.risk_level))}}) :
            volume_spikes \in {detect_volume_spikes(pd, Int2Num(2))},
            price_anomalies \in {detect_price_anomalies(pd, 20)},
            gap_movements \in {detect_gap_movements(pd, Int2Num(5))},
            divergence \in {detect_price_volume_divergence(pd)},
            volatility \in {calculate_volatility_metrics(pd)}})

\* the weights of the forensic and the news risk exchanged
WeightedRisk_news(forensic_risk, news_risk, pattern_risk) ==
    FAdd(FAdd(FMul(F(forensic_risk, 100), F(3, 10)),
              FMul(F(news_risk, 100), F(5, 10))),
         FMul(F(pattern_risk, 100), F(2, 10)))

\* forensic_risk * 0.5 + news_risk * 0.3 + pattern_risk * 0.2, the risks
\* given as hundredths
WeightedRisk(forensic_risk, news_risk, pattern_risk) ==
    FAdd(FAdd(FMul(F(forensic_risk, 100), F(5, 10)),
              FMul(F(news_risk, 100), F(3, 10))),
         FMul(F(pattern_risk, 100), F(2, 10)))

\* main.analyze_stock, steps 2-5 (lines 71-157), for fetched data whose
\* stock_info is not empty.  news_risk is the risk score of the news
\* collaborator, levels the risk levels of the five pattern detectors.
analyze_stock(fa, news_risk, levels) ==
    The({IF forensic_report.k = "raise" THEN forensic_report
         ELSE LET forensic_risk == forensic_report.overall_risk_score
                  pattern_risk == pattern_report.overall_pattern_risk_score
              IN  The({[k |-> "ok",
                        analysis_timestamp |-> now,
                        forensic_analysis |-> forensic_report,
                        pattern_analysis |-> pattern_report,
                        forensic_risk |-> forensic_risk,
                        news_risk |-> news_risk,
                        pattern_risk |-> pattern_risk,
                        overall_risk_score |-> NpHundredths(overall_risk_score),
                        overall_risk_level |-> RiskLevel63(overall_risk_score)] :
                      overall_risk_score \in
                          {WeightedRisk(forensic_risk, news_risk, pattern_risk)}}) :
            forensic_report \in {generate_forensic_report(fa)},
            pattern_report \in {PatternOverall(levels)}})

(***************************************************************************)
(* Inputs                                                                  *)
(***************************************************************************)
V(n) == Int2Num(n)

Financials(bs, is, cf, mc) ==
    [balance_sheet |-> bs, income_statement |-> is, cash_flow |-> cf,
     market_cap |-> mc]

\* no statements at all
NoStatements == Financials(EmptyTable, EmptyTable, EmptyTable, Absent)
\* a single period; Z = revenue / total assets
OnePeriod(rev) ==
    Financials(Table(1, <<Row("Total Assets", <<V(100)>>)>>),
               Table(1, <<Row("Total Revenue", <<V(rev)>>)>>),
               EmptyTable, Absent)
\* two periods, none of the requested line items present
NoLineItems ==
    Financials(Table(2, <<Row("Other", <<V(1), V(1)>>)>>),
               Table(2, <<Row("Other", <<V(1), V(1)>>)>>),
               Table(2, <<Row("Other", <<V(1), V(1)>>)>>), Absent)
\* two periods, accruals ni over assets 4679 and revenue rev in both
Accruals(ni, rev) ==
    Financials(Table(2, <<Row("Total Assets", <<V(4679), V(0)>>)>>),
               Table(2, <<Row("Net Income", <<V(ni), V(0)>>),
                          Row("Total Revenue", <<V(rev), V(rev)>>)>>),
               EmptyTable, Absent)
\* revenue falls from prev to cur; names differ in case from those asked for
Revenue(cur, prev) ==
    Financials(Table(2, <<Row("TOTAL ASSETS", <<V(100), V(100)>>)>>),
               Table(2, <<Row("Other", <<V(1), V(1)>>),
                          Row("Total revenue", <<cur, prev>>)>>),
               EmptyTable, V(50))
Company(mc) ==
    Financials(
        Table(2, <<Row("Accounts Receivable", <<V(20), V(10)>>),
                   Row("Total Assets", <<V(200), V(100)>>),
                   Row("Total Current Assets", <<V(80), V(50)>>),
                   Row("Net PPE", <<V(60), V(30)>>),
                   Row("Total Liabilities Net Minority Interest", <<V(100), V(40)>>),
                   Row("Total Current Liabilities", <<V(40), V(20)>>),
                   Row("Retained Earnings", <<V(50), V(30)>>)>>),
        Table(2, <<Row("Total Revenue", <<V(120), V(100)>>),
                   Row("Cost Of Revenue", <<V(60), V(50)>>),
                   Row("Selling General And Administration", <<V(12), V(10)>>),
                   Row("Net Income", <<V(30), V(10)>>),
                   Row("EBIT", <<V(40), V(20)>>)>>),
        Table(2, <<Row("Depreciation", <<V(-6), V(-5)>>),
                   Row("Operating Cash Flow", <<V(10), V(8)>>)>>),
        mc)
\* two periods of a company whose sales began in the current period: no
\* revenue and no cost of revenue in the prior period
FirstSales ==
    Financials(
        Table(2, <<Row("Accounts Receivable", <<V(20), V(0)>>),
                   Row("Total Assets", <<V(200), V(100)>>),
                   Row("Total Current Assets", <<V(80), V(50)>>),
                   Row("Net PPE", <<V(60), V(30)>>),
                   Row("Total Liabilities Net Minority Interest", <<V(100), V(40)>>)>>),
        Table(2, <<Row("Total Revenue", <<V(120), V(0)>>),
                   Row("Cost Of Revenue", <<V(60), V(0)>>),
                   Row("Selling General And Administration", <<V(12), V(10)>>),
                   Row("Net Income", <<V(30), V(-10)>>)>>),
        Table(2, <<Row("Depreciation", <<V(-6), V(-5)>>),
                   Row("Operating Cash Flow", <<V(10), V(-8)>>)>>),
        V(300))
\* tables that are not DataFrames
NotFrames == Financials(NoneTable, NoneTable, NoneTable, Absent)
NoIncomeFrame ==
    Financials(Table(1, <<Row("Total Assets", <<V(100)>>)>>), NoneTable,
               EmptyTable, Absent)

CoreFinancials ==
    {NoStatements, OnePeriod(300), Accruals(270, 0), Revenue(V(80), V(100)),
     Company(V(300))}
AllFinancials ==
    CoreFinancials
    \cup {OnePeriod(r) : r \in {299, 182, 181}}
    \cup {Accruals(260, 0), Accruals(270, 14037), Accruals(260, 14037)}
    \cup {NoLineItems, Revenue(V(100), V(100)), Revenue(NaN, V(100)),
          Revenue(V(80), StrV), Company(StrV), Company(NoneV), Company(NaN),
          FirstSales, NotFrames, NoIncomeFrame}

Ratios(pm, de, cr, roe) ==
    [profit_margin |-> pm, debt_to_equity |-> de, current_ratio |-> cr,
     roe |-> roe]
NoRatios == Ratios(Absent, Absent, Absent, Absent)
HealthyRatios == Ratios(V(10), Num(1, 2), V(2), V(10))
CoreRatios ==
    {NoRatios, HealthyRatios, Ratios(V(-2), V(3), Num(1, 2), V(-1)),
     Ratios(NoneV, V(3), V(2), V(10)), Ratios(V(10), V(3), V(2), StrV),
     Ratios(NaN, NaN, NaN, NaN)}
AllRatios ==
    {Ratios(pm, de, cr, roe) :
        pm \in {Absent, V(-2), V(3), V(10)},
        de \in {Absent, Num(3, 2), V(3)},
        cr \in {Absent, Num(6, 5), V(2)},
        roe \in {V(-1), V(10)}}
\* ratios on the thresholds of the rules
BoundaryRatios ==
    {Ratios(V(0), V(1), V(1), V(0)), Ratios(V(5), V(2), Num(3, 2), V(0)),
     Ratios(V(-2), V(3), Num(1, 2), V(10)), Ratios(V(3), V(3), V(2), V(10)),
     Ratios(V(3), Num(3, 2), Num(6, 5), V(10))}

Holdings(insider, institutional, short) ==
    [insider_ownership |-> insider, institutional_ownership |-> institutional,
     short_ratio |-> short]
NormalHoldings == Holdings(V(10), V(50), V(2))
NoHoldings == Holdings(Absent, Absent, Absent)
CoreHoldings ==
    {NormalHoldings, NoHoldings, Holdings(V(80), V(5), V(12)),
     Holdings(NoneV, V(50), V(2)), Holdings(V(10), V(50), NoneV)}
\* ownership percentages and short ratios on and around the thresholds
AllHoldings ==
    {Holdings(insider, institutional, short) :
        insider \in {Absent, Num(1, 2), V(1), V(10), V(75), V(76), NaN},
        institutional \in {V(5), V(10), V(50)},
        short \in {Absent, V(2), V(10), V(11), NaN}}

\* ForensicAnalyzer.__init__ (lines 22-26)
Analyzer(fin, ratios, holdings) ==
    [balance_sheet |-> fin.balance_sheet,
     income_statement |-> fin.income_statement,
     cash_flow |-> fin.cash_flow,
     stock_info |-> [market_cap |-> fin.market_cap],
     key_ratios |-> ratios,
     shareholding |-> holdings]

\* ForensicAnalyzer({}): no statements, no ratios, no snapshot, no holdings
EmptyAnalyzer == Analyzer(NoStatements, NoRatios, NoHoldings)

Analyzers ==
    {Analyzer(f, r, h) : f \in AllFinancials, r \in CoreRatios, h \in CoreHoldings}
    \cup {Analyzer(f, r, NormalHoldings) : f \in CoreFinancials, r \in AllRatios}
    \cup {Analyzer(NoStatements, HealthyRatios, h) : h \in AllHoldings}
    \cup {Analyzer(f, r, NormalHoldings) :
              f \in {NoStatements, Revenue(V(90), V(100)), Revenue(V(80), V(100))},
              r \in BoundaryRatios}
    \* scores that round to a threshold from either side: Z = revenue / 10000
    \* and M = -2.48 + net income / 10000
    \cup {Analyzer(f, HealthyRatios, NormalHoldings) :
              f \in {Financials(Table(1, <<Row("Total Assets", <<V(10000)>>)>>),
                                Table(1, <<Row("Total Revenue", <<V(rev)>>)>>),
                                EmptyTable, Absent) :
                         rev \in {29904, 29896, 18104, 18096}}
                     \cup
                     {Financials(Table(2, <<Row("Total Assets", <<V(46790), V(0)>>)>>),
                                 Table(2, <<Row("Net Income", <<V(ni), V(0)>>),
                                            Row("Total Revenue", <<V(0), V(0)>>)>>),
                                 EmptyTable, Absent) :
                         ni \in {2604, 2596}}
                     \cup
                     \* three periods of rows nobody asks for, no cash flow
                     {Financials(Table(3, <<Row("Inventory", <<V(5), V(4), V(3)>>)>>),
                                 Table(3, <<Row("Tax Provision", <<V(7), NaN, V(2)>>)>>),
                                 EmptyTable, V(50))}}

(***************************************************************************)
(* State.  analyzer: the fields of the ForensicAnalyzer under analysis;    *)
(* m_score .. forensic_report: what the last call of each of its public    *)
(* methods returned (Nil before the first call, Raised(..) when the call   *)
(* raised); calls: the number of method calls made; sd_call, gv_call:      *)
(* one call of safe_divide / _get_value with its arguments and result;     *)
(* stock_run: one run of analyze_stock with its inputs and result; now:    *)
(* the wall clock (declared above).                                        *)
(***************************************************************************)
VARIABLES analyzer, m_score, z_score, pledge_analysis, red_flags,
          forensic_report, calls, sd_call, gv_call, stock_run

\* detector: the PatternDetector under analysis (Raised(..) when its
\* construction raised); volume_spikes .. pattern_report: the last call of
\* each of its methods, with its argument and what it returned in ret (Nil
\* before the first call)
VARIABLES detector, volume_spikes, price_anomalies, gap_movements,
          divergence, volatility, pattern_report

patternVars == <<detector, volume_spikes, price_anomalies, gap_movements,
                 divergence, volatility, pattern_report>>

vars == <<analyzer, m_score, z_score, pledge_analysis, red_flags,
          forensic_report, calls, sd_call, gv_call, stock_run, now,
          patternVars>>

MaxCalls == 2
MaxTime == 1

NoResults ==
    /\ m_score = Nil
    /\ z_score = Nil
    /\ pledge_analysis = Nil
    /\ red_flags = Nil
    /\ forensic_report = Nil
    /\ calls = 0

IdleAnalyzer == Analyzer(NoStatements, NoRatios, NormalHoldings)

NoPattern ==
    /\ detector = Nil
    /\ volume_spikes = Nil
    /\ price_anomalies = Nil
    /\ gap_movements = Nil
    /\ divergence = Nil
    /\ volatility = Nil
    /\ pattern_report = Nil

\* ---- the analyzer and its public methods -------------------------------
Init ==
    /\ analyzer \in Analyzers
    /\ NoResults
    /\ NoPattern
    /\ sd_call = Nil
    /\ gv_call = Nil
    /\ stock_run = Nil
    /\ now = 0

CalculateBeneishMScore ==
    /\ calls < MaxCalls
    /\ m_score' = calculate_beneish_m_score(analyzer)
    /\ calls' = calls + 1
    /\ UNCHANGED <<analyzer, z_score, pledge_analysis, red_flags,
                   forensic_report, sd_call, gv_call, stock_run, now,
                   patternVars>>

CalculateAltmanZScore ==
    /\ calls < MaxCalls
    /\ z_score' = calculate_altman_z_score(analyzer)
    /\ calls' = calls + 1
    /\ UNCHANGED <<analyzer, m_score, pledge_analysis, red_flags,
                   forensic_report, sd_call, gv_call, stock_run, now,
                   patternVars>>

AnalyzePromoterPledge ==
    /\ calls < MaxCalls
    /\ pledge_analysis' = analyze_promoter_pledge(analyzer)
    /\ calls' = calls + 1
    /\ UNCHANGED <<analyzer, m_score, z_score, red_flags, forensic_report,
                   sd_call, gv_call, stock_run, now,
                   patternVars>>

DetectFinancialRedFlags ==
    /\ calls < MaxCalls
    /\ red_flags' = detect_financial_red_flags(analyzer)
    /\ calls' = calls + 1
    /\ UNCHANGED <<analyzer, m_score, z_score, pledge_analysis,
                   forensic_report, sd_call, gv_call, stock_run, now,
                   patternVars>>

GenerateForensicReport ==
    /\ calls < MaxCalls
    /\ forensic_report' = generate_forensic_report(analyzer)
    /\ calls' = calls + 1
    /\ UNCHANGED <<analyzer, m_score, z_score, pledge_analysis, red_flags,
                   sd_call, gv_call, stock_run, now,
                   patternVars>>

\* time passes between two calls
Tick ==
    /\ now < MaxTime
    /\ now' = now + 1
    /\ UNCHANGED <<analyzer, m_score, z_score, pledge_analysis, red_flags,
                   forensic_report, calls, sd_call, gv_call, stock_run,
                   patternVars>>

Next ==
    \/ CalculateBeneishMScore
    \/ CalculateAltmanZScore
    \/ AnalyzePromoterPledge
    \/ DetectFinancialRedFlags
    \/ GenerateForensicReport
    \/ Tick

Spec == Init /\ [][Next]_vars

\* ---- utils.safe_divide and ForensicAnalyzer._get_value ------------------
Operands == {V(0), V(1), V(2), V(10), V(-3), Num(1, 2), NaN, NoneV, StrV}
Defaults == {V(0), V(1), V(-1)}

LookupTables ==
    {EmptyTable,
     Table(0, <<Row("Total Revenue", <<>>)>>),
     Table(1, <<Row("Total Revenue", <<V(7)>>)>>),
     Table(2, <<Row("total revenue", <<V(5), V(6)>>),
                Row("Total Revenue", <<V(7), V(8)>>)>>),
     Table(2, <<Row("TOTAL REVENUE", <<V(3), V(4)>>),
                Row("total revenue", <<V(5), V(6)>>),
                Row("Net Income", <<V(9), NaN>>)>>),
     Table(2, <<Row("Total Revenue", <<NaN, NoneV>>),
                Row("total revenue", <<V(5), V(6)>>)>>),
     Table(2, <<Row("TOTAL REVENUE", <<StrV, V(4)>>),
                Row("Net Income", <<V(-9), V(2)>>)>>),
     NoneTable}
LookupNames == {"Total Revenue", "Net Income", "EBIT"}
MaxCol == 2

InitUtils ==
    /\ analyzer = IdleAnalyzer
    /\ NoResults
    /\ NoPattern
    /\ stock_run = Nil
    /\ now = 0
    /\ \/ /\ gv_call = Nil
          /\ \E n \in Operands, d \in Operands, default \in Defaults :
                sd_call = [numerator |-> n, denominator |-> d,
                           default |-> default, ret |-> Nil]
       \/ /\ sd_call = Nil
          /\ \E df \in LookupTables, name \in LookupNames, col \in 0..MaxCol :
                gv_call = [df |-> df, row_name |-> name, col_index |-> col,
                           ret |-> Nil]

SafeDivide ==
    /\ sd_call # Nil
    /\ sd_call.ret = Nil
    /\ sd_call' = [sd_call EXCEPT !.ret =
                      safe_divide(sd_call.numerator, sd_call.denominator,
                                  sd_call.default)]
    /\ UNCHANGED <<analyzer, m_score, z_score, pledge_analysis, red_flags,
                   forensic_report, calls, gv_call, stock_run, now,
                   patternVars>>

GetValue ==
    /\ gv_call # Nil
    /\ gv_call.ret = Nil
    /\ gv_call' = [gv_call EXCEPT !.ret =
                      get_value(gv_call.df, gv_call.row_name, gv_call.col_index)]
    /\ UNCHANGED <<analyzer, m_score, z_score, pledge_analysis, red_flags,
                   forensic_report, calls, sd_call, stock_run, now,
                   patternVars>>

NextUtils == SafeDivide \/ GetValue

SpecUtils == InitUtils /\ [][NextUtils]_vars

\* ---- main.analyze_stock -------------------------------------------------
DetectorLevels ==
    {Levels("UNKNOWN", "UNKNOWN", "UNKNOWN", "UNKNOWN", "UNKNOWN"),
     Levels("LOW", "LOW", "LOW", "LOW", "LOW"),
     Levels("HIGH", "HIGH", "HIGH", "LOW", "LOW"),
     Levels("MEDIUM", "MEDIUM", "LOW", "LOW", "LOW"),
     Levels("HIGH", "HIGH", "HIGH", "MEDIUM", "HIGH")}
\* every combination of the levels the detectors assign
AllDetectorLevels ==
    {Levels(vol, price, gap, div, vola) :
        vol \in {"HIGH", "MEDIUM", "LOW"}, price \in {"HIGH", "MEDIUM", "LOW"},
        gap \in {"HIGH", "MEDIUM", "LOW"}, div \in {"MEDIUM", "LOW"},
        vola \in {"HIGH", "MEDIUM", "LOW"}}
NewsRisks == {0, 20, 30, 50, 100}
StockAnalyzers ==
    {Analyzer(f, r, NormalHoldings) :
        f \in {NoStatements, OnePeriod(300), Accruals(270, 14037), Company(V(300))},
        r \in {HealthyRatios, NoRatios, Ratios(V(-2), V(3), V(2), V(10)),
               Ratios(V(-2), V(3), Num(1, 2), V(-1)),
               Ratios(V(-2), V(3), Num(6, 5), V(-1)),
               Ratios(NoneV, V(3), V(2), V(10))}}

InitStock ==
    /\ NoResults
    /\ NoPattern
    /\ sd_call = Nil
    /\ gv_call = Nil
    /\ now = 0
    /\ \/ /\ analyzer \in StockAnalyzers
          /\ \E news \in NewsRisks, levels \in DetectorLevels :
                stock_run = [news_risk |-> news, levels |-> levels, ret |-> Nil]
       \/ /\ analyzer = Analyzer(Company(V(300)), HealthyRatios, NormalHoldings)
          /\ \E levels \in AllDetectorLevels :
                stock_run = [news_risk |-> 20, levels |-> levels, ret |-> Nil]

AnalyzeStock ==
    /\ stock_run # Nil
    /\ stock_run.ret = Nil
    /\ stock_run' = [stock_run EXCEPT !.ret =
                        analyze_stock(analyzer, stock_run.news_risk,
                                      stock_run.levels)]
    /\ UNCHANGED <<analyzer, m_score, z_score, pledge_analysis, red_flags,
                   forensic_report, calls, sd_call, gv_call, now,
                   patternVars>>

NextStock == AnalyzeStock

SpecStock == InitStock /\ [][NextStock]_vars

\* ---- one PatternDetector and its methods --------------------------------
\* the price series: Series is n bars that each open at the previous close;
\* Burst, bars of volume 100 with bar `at` at volume peak; Bursts, bars of
\* volume 10, those from bar `from` on near 1000; Jump, bars closing at base
\* with bar `at` closing at peak; Periodic, the same with every sixth bar at
\* peak; Gapped, 12 bars closing at 100 where bar 2 opens 6% up, bar 3
\* exactly 5% up, the `down` bars after it 6% to 8% down and the `up` bars
\* after those 7% up; Trend, close c0
\* and volume v0 with the last five bars at c1 and v1, and the bars before
\* the trailing twenty at twice c0 and v1.  The five-bar mean volumes of
\* every series are whole numbers, for which the trends computed in floats
\* are the exact ones
Frames ==
    LET OHLCV == {"Open", "Close", "Volume"}
        Series(n, Close(_), Volume(_)) ==
            Frame(OHLCV, [i \in 1..n |->
                             Bar(IF i = 1 THEN Close(1) ELSE Close(i - 1),
                                 Close(i), Volume(i))])
        Burst(n, at, peak) ==
            Series(n, LAMBDA i : 100, LAMBDA i : IF i = at THEN peak ELSE 100)
        Bursts(n, from) ==
            Series(n, LAMBDA i : 100,
                   LAMBDA i : IF i < from THEN 10 ELSE 1000 + 10 * (i % 7))
        Jump(n, at, base, peak) ==
            Series(n, LAMBDA i : IF i = at THEN peak ELSE base, LAMBDA i : 100)
        Periodic(n, base, peak) ==
            Series(n, LAMBDA i : IF i % 6 = 0 THEN peak ELSE base,
                   LAMBDA i : 100)
        Gapped(down, up) ==
            Frame(OHLCV, [i \in 1..12 |->
                             Bar(IF i = 2 THEN 106 ELSE IF i = 3 THEN 105
                                 ELSE IF i > 3 /\ i <= 3 + down THEN 94 - (i % 3)
                                 ELSE IF i > 3 + down /\ i <= 3 + down + up
                                 THEN 107
                                 ELSE 100,
                                 100, 100)])
        Trend(n, c0, c1, v0, v1) ==
            Series(n,
                   LAMBDA i : IF i <= n - 20 THEN 2 * c0
                              ELSE IF i > n - 5 THEN c1 ELSE c0,
                   LAMBDA i : IF i <= n - 20 THEN 2 * v1
                              ELSE IF i > n - 5 THEN v1 ELSE v0)
    IN  {NoneFrame, Frame(OHLCV, <<>>), Frame({}, <<>>),
         Frame({"High", "Low"}, Burst(5, 1, 100).bars),
         Frame({"Close"}, Burst(5, 1, 100).bars),
         Frame({"Open", "Volume"}, Burst(19, 10, 2000).bars),
         Frame({"Open", "Volume"}, Burst(5, 1, 100).bars),
         Burst(1, 1, 100), Burst(2, 1, 100), Burst(5, 1, 100),
         Burst(20, 1, 100),
         Burst(19, 10, 2000), Burst(19, 10, 200), Bursts(13, 8), Bursts(23, 13),
         Bursts(30, 20),
         Jump(6, 6, 10, 50), Jump(25, 22, 10, 50), Jump(25, 22, 50, 10),
         Periodic(54, 10, 50), Periodic(96, 10, 50),
         Gapped(1, 0), Gapped(3, 0), Gapped(6, 0), Gapped(0, 6), Gapped(2, 5),
         Trend(20, 100, 110, 100, 70), Trend(20, 100, 105, 100, 70),
         Trend(20, 100, 110, 100, 80), Trend(20, 100, 90, 100, 130),
         Trend(20, 100, 95, 100, 130), Trend(20, 100, 90, 100, 120),
         Trend(9, 100, 110, 100, 70), Trend(10, 100, 110, 100, 70),
         Trend(25, 100, 110, 100, 70), Trend(30, 100, 102, 100, 100),
         Trend(20, 100, 90, 0, 70), Trend(20, 100, 110, 0, 0)}

InitPattern ==
    /\ analyzer = IdleAnalyzer
    /\ NoResults
    /\ sd_call = Nil
    /\ gv_call = Nil
    /\ stock_run = Nil
    /\ now = 0
    /\ \E historical_data \in Frames :
          detector = PatternDetector(historical_data)
    /\ volume_spikes = Nil
    /\ price_anomalies = Nil
    /\ gap_movements = Nil
    /\ divergence = Nil
    /\ volatility = Nil
    /\ pattern_report = Nil

forensicVars == <<analyzer, m_score, z_score, pledge_analysis, red_flags,
                  forensic_report, sd_call, gv_call, stock_run, now>>

DetectVolumeSpikes ==
    /\ detector.k = "ok"
    /\ calls < MaxCalls
    /\ \E threshold \in {Int2Num(1), Int2Num(2)} :
          volume_spikes' = [threshold |-> threshold,
                            ret |-> detect_volume_spikes(detector, threshold)]
    /\ calls' = calls + 1
    /\ UNCHANGED <<forensicVars, detector, price_anomalies, gap_movements,
                   divergence, volatility, pattern_report>>

DetectPriceAnomalies ==
    /\ detector.k = "ok"
    /\ calls < MaxCalls
    /\ \E window \in {6, 20} :
          price_anomalies' = [window |-> window,
                              ret |-> detect_price_anomalies(detector, window)]
    /\ calls' = calls + 1
    /\ UNCHANGED <<forensicVars, detector, volume_spikes, gap_movements,
                   divergence, volatility, pattern_report>>

DetectGapMovements ==
    /\ detector.k = "ok"
    /\ calls < MaxCalls
    /\ \E gap_threshold \in {Int2Num(5)} :
          gap_movements' = [gap_threshold |-> gap_threshold,
                            ret |-> detect_gap_movements(detector, gap_threshold)]
    /\ calls' = calls + 1
    /\ UNCHANGED <<forensicVars, detector, volume_spikes, price_anomalies,
                   divergence, volatility, pattern_report>>

DetectPriceVolumeDivergence ==
    /\ detector.k = "ok"
    /\ calls < MaxCalls
    /\ divergence' = [ret |-> detect_price_volume_divergence(detector)]
    /\ calls' = calls + 1
    /\ UNCHANGED <<forensicVars, detector, volume_spikes, price_anomalies,
                   gap_movements, volatility, pattern_report>>

CalculateVolatilityMetrics ==
    /\ detector.k = "ok"
    /\ calls < MaxCalls
    /\ volatility' = [ret |-> calculate_volatility_metrics(detector)]
    /\ calls' = calls + 1
    /\ UNCHANGED <<forensicVars, detector, volume_spikes, price_anomalies,
                   gap_movements, divergence, pattern_report>>

GeneratePatternReport ==
    /\ detector.k = "ok"
    /\ calls < MaxCalls
    /\ pattern_report' = [ret |-> generate_pattern_report(detector)]
    /\ calls' = calls + 1
    /\ UNCHANGED <<forensicVars, detector, volume_spikes, price_anomalies,
                   gap_movements, divergence, volatility>>

NextPattern ==
    \/ DetectVolumeSpikes
    \/ DetectPriceAnomalies
    \/ DetectGapMovements
    \/ DetectPriceVolumeDivergence
    \/ CalculateVolatilityMetrics
    \/ GeneratePatternReport

SpecPattern == InitPattern /\ [][NextPattern]_vars

(***************************************************************************)
(* Claims                                                                  *)
(***************************************************************************)
\* C1: for an analyzer built from empty inputs throughout, the M-Score and
\* the Z-Score both come back with calculation_possible = false, the
\* red-flag detection comes back with risk_score 0.0 and risk_level LOW, and
\* none of the three raises.
C1_EmptyInputsDegrade ==
    analyzer = EmptyAnalyzer =>
        /\ m_score # Nil =>
              m_score.k = "ok" /\ ~m_score.calculation_possible
        /\ z_score # Nil =>
              z_score.k = "ok" /\ ~z_score.calculation_possible
        /\ red_flags # Nil =>
              /\ red_flags.k = "ok"
              /\ red_flags.risk_score = 0
              /\ red_flags.risk_level = "LOW"

\* the part of C1 that the scores meet: both calculations are declined
C1_ScoresDeclined ==
    /\ analyzer = EmptyAnalyzer
    /\ m_score # Nil /\ ~m_score.calculation_possible
    /\ z_score # Nil /\ ~z_score.calculation_possible

\* C2: every component-level method returns a result and never lets a fault
\* of its own input propagate, so the report is never aborted.
C2_ComponentsTerminal ==
    /\ m_score # Nil => m_score.k = "ok"
    /\ z_score # Nil => z_score.k = "ok"
    /\ pledge_analysis # Nil => pledge_analysis.k = "ok"
    /\ red_flags # Nil => red_flags.k = "ok"
    /\ forensic_report # Nil => forensic_report.k = "ok"

\* the statements from which no M-Score can be computed: a table that is
\* not a frame, an empty table, or fewer than 2 periods
MScoreUnmet(fa) ==
    \/ fa.balance_sheet.k # "df" \/ fa.income_statement.k # "df"
    \/ DfEmpty(fa.balance_sheet) \/ DfEmpty(fa.income_statement)
    \/ fa.balance_sheet.cols < 2 \/ fa.income_statement.cols < 2

\* C3: calculate_beneish_m_score never raises, and when the income statement
\* or the balance sheet is empty, has fewer than 2 periods, or makes the
\* extraction fail, the result has calculation_possible = false, a null
\* score, risk_level UNKNOWN, no components and a descriptive interpretation.
C3_MScoreNeverRaises ==
    m_score # Nil =>
        /\ m_score.k = "ok"
        /\ MScoreUnmet(analyzer) =>
              /\ ~m_score.calculation_possible
              /\ m_score.score = NoneV
              /\ m_score.risk_level = "UNKNOWN"
              /\ m_score.components = EmptyDict
              /\ m_score.interpretation # ""

\* the M-Score was asked of statements that are not frames and answered with
\* the error result
C3_Witness ==
    /\ analyzer.balance_sheet = NoneTable
    /\ m_score # Nil
    /\ m_score.k = "ok"
    /\ m_score.interpretation = "Error calculating M-Score"

\* C4: the risk_score of detect_financial_red_flags is never above 1.0 and
\* never negative, whatever the ratios and revenues.
C4_RedFlagScoreInUnitInterval ==
    (red_flags # Nil /\ red_flags.k = "ok") =>
        red_flags.risk_score >= 0 /\ red_flags.risk_score <= 100

\* all five rules triggered at once
C4_Witness ==
    /\ red_flags # Nil
    /\ red_flags.k = "ok"
    /\ red_flags.total_flags = 5
    /\ red_flags.risk_score = 90

\* C5: the report's overall score is the mean (to two decimals) of the
\* contributions present - the M-Score as 1.0 if HIGH else 0.3 and the
\* Z-Score as 1.0 if HIGH, 0.5 if MEDIUM, else 0.2, each only when its
\* calculation was possible, and the red-flag risk_score always - and the
\* level is HIGH when the mean > 0.6, MEDIUM when > 0.3, else LOW.
C5_ForensicMean ==
    (forensic_report # Nil /\ forensic_report.k = "ok") =>
        LET m == forensic_report.beneish_m_score
            z == forensic_report.altman_z_score
            nm == IF m.calculation_possible THEN 1 ELSE 0
            nz == IF z.calculation_possible THEN 1 ELSE 0
            cm == IF nm = 0 THEN 0 ELSE IF m.risk_level = "HIGH" THEN 100 ELSE 30
            cz == IF nz = 0 THEN 0
                  ELSE IF z.risk_level = "HIGH" THEN 100
                  ELSE IF z.risk_level = "MEDIUM" THEN 50 ELSE 20
            count == nm + nz + 1
            sum == cm + cz + forensic_report.financial_red_flags.risk_score
            h == forensic_report.overall_risk_score
        IN  /\ 2 * Abs(h * count - sum) <= count
            /\ forensic_report.overall_risk_level =
                  (IF sum > 60 * count THEN "HIGH"
                   ELSE IF sum > 30 * count THEN "MEDIUM" ELSE "LOW")

\* the scenario of C5: M-Score HIGH, Z-Score HIGH, red-flag score 0.0 give
\* 0.67 and HIGH
C5_Scenario ==
    /\ forensic_report # Nil
    /\ forensic_report.k = "ok"
    /\ forensic_report.beneish_m_score.risk_level = "HIGH"
    /\ forensic_report.altman_z_score.risk_level = "HIGH"
    /\ forensic_report.financial_red_flags.risk_score = 0
    /\ forensic_report.overall_risk_score = 67
    /\ forensic_report.overall_risk_level = "HIGH"

\* C6: the top-level score is 0.5 * forensic + 0.3 * news + 0.2 * pattern (to
\* two decimals) and the level is HIGH when that sum > 0.6, MEDIUM when
\* > 0.3, else LOW, so that a sum of exactly 0.6 or 0.3 is in the lower tier.
C6_WeightedSum ==
    (stock_run # Nil /\ stock_run.ret # Nil /\ stock_run.ret.k = "ok") =>
        LET r == stock_run.ret
            sum == 50 * r.forensic_risk + 30 * r.news_risk + 20 * r.pattern_risk
        IN  /\ r.news_risk = stock_run.news_risk
            /\ 2 * Abs(100 * r.overall_risk_score - sum) <= 100
            /\ r.overall_risk_level =
                  (IF sum > 6000 THEN "HIGH"
                   ELSE IF sum > 3000 THEN "MEDIUM" ELSE "LOW")

\* a run whose weighted sum is well inside the MEDIUM tier
C6_Scenario ==
    /\ stock_run # Nil
    /\ stock_run.ret # Nil
    /\ stock_run.ret.k = "ok"
    /\ stock_run.ret.overall_risk_score = 45
    /\ stock_run.ret.overall_risk_level = "MEDIUM"

\* C7: Z > 2.99 is LOW, 1.81 < Z <= 2.99 is MEDIUM and Z <= 1.81 is HIGH, for
\* the unrounded Z; so 3.0 is LOW, 2.99 and 1.82 are MEDIUM, 1.81 is HIGH.
C7_ZScoreBoundaries ==
    (z_score # Nil /\ z_score.calculation_possible) =>
        LET z == AltmanRaw(analyzer).z_score
        IN  z_score.risk_level =
                (IF 100 * z.n > 299 * z.d THEN "LOW"
                 ELSE IF 100 * z.n > 181 * z.d THEN "MEDIUM" ELSE "HIGH")

\* a Z-Score of exactly 2.99 was classified, as MEDIUM
C7_Witness ==
    /\ z_score # Nil
    /\ z_score.calculation_possible
    /\ AltmanRaw(analyzer).z_score = Num(299, 100)
    /\ z_score.risk_level = "MEDIUM"

\* C8: M > -2.22 is HIGH and otherwise LOW, for the unrounded M; so -2.22 is
\* LOW and -2.21 is HIGH.
C8_MScoreBoundary ==
    (m_score # Nil /\ m_score.calculation_possible) =>
        LET m == BeneishRaw(analyzer).m_score
        IN  m_score.risk_level =
                (IF 100 * m.n > (-222) * m.d THEN "HIGH" ELSE "LOW")

\* an M-Score of exactly -2.22 was classified, as LOW
C8_Witness ==
    /\ m_score # Nil
    /\ m_score.calculation_possible
    /\ BeneishRaw(analyzer).m_score = Num(-222, 100)
    /\ m_score.risk_level = "LOW"

\* C9: safe_divide(n, d, default) returns default when d = 0 or when n or d
\* is not-a-number, returns n / d for numbers otherwise, and never raises a
\* division error.
C9_SafeDivide ==
    (sd_call # Nil /\ sd_call.ret # Nil) =>
        LET n == sd_call.numerator
            d == sd_call.denominator
            ret == sd_call.ret
        IN  /\ ret.k # "ZeroDivisionError"
            /\ ((d.k = "num" /\ d.n = 0) \/ IsNa(d) \/ IsNa(n)) =>
                  ret = sd_call.default
            /\ (n.k = "num" /\ d.k = "num" /\ d.n # 0) =>
                  ret.k = "num" /\ ret.n * (n.d * d.n) = ret.d * (n.n * d.d)

\* a division by zero returned its default, here -1
C9_Witness ==
    /\ sd_call # Nil
    /\ sd_call.numerator = V(10)
    /\ sd_call.denominator = V(0)
    /\ sd_call.default = V(-1)
    /\ sd_call.ret = V(-1)

\* C10: _get_value returns the value of the exactly-named row when there
\* is one, otherwise that of the first row matching case-insensitively, and
\* returns 0.0 without failing when the row is absent, the period index is
\* out of range, the table is empty or the stored value is absent.
C10_GetValue ==
    (gv_call # Nil /\ gv_call.ret # Nil) =>
        LET df == gv_call.df
            col == gv_call.col_index
            ret == gv_call.ret
            usable == df.k = "df" /\ ~DfEmpty(df) /\ col < df.cols
            exact == {i \in 1..Len(df.rows) : df.rows[i].name = gv_call.row_name}
            anycase == {i \in 1..Len(df.rows) :
                           Lower(df.rows[i].name) = Lower(gv_call.row_name)}
            Stored(i) == IF df.rows[i].vals[col + 1].k = "num"
                         THEN df.rows[i].vals[col + 1] ELSE V(0)
        IN  /\ ret.k = "num"
            /\ (usable /\ exact # {}) => \E i \in exact : ret = Stored(i)
            /\ (usable /\ exact = {} /\ anycase # {}) =>
                  \E i \in anycase : (\A j \in anycase : i <= j) /\ ret = Stored(i)
            /\ (~usable \/ anycase = {}) => ret = V(0)

\* no row is named exactly "Total Revenue"; the first of two rows matching
\* case-insensitively was returned
C10_Witness ==
    /\ gv_call # Nil
    /\ gv_call.row_name = "Total Revenue"
    /\ gv_call.col_index = 1
    /\ Len(gv_call.df.rows) = 3
    /\ gv_call.df.rows[1].name = "TOTAL REVENUE"
    /\ gv_call.ret = V(4)

\* C14: the ownership risk level is HIGH exactly when the short-interest
\* ratio is above 10; otherwise MEDIUM exactly when insider ownership is below
\* 1% or above 75%; otherwise LOW.  Institutional ownership below 10% adds a
\* red flag and on its own leaves the level LOW.  (A figure that is not given
\* counts as 0, a figure that is not-a-number is on neither side of a
\* threshold.)
C14_OwnershipLevel ==
    (pledge_analysis # Nil /\ pledge_analysis.k = "ok") =>
        LET h == analyzer.shareholding
            Figure(v) == IF v.k = "absent" THEN V(0) ELSE v
            insider == Figure(h.insider_ownership)
            institutional == Figure(h.institutional_ownership)
            short == Figure(h.short_ratio)
            Below(v, c) == v.k = "num" /\ v.n < c * v.d
            Above(v, c) == v.k = "num" /\ v.n > c * v.d
            level == pledge_analysis.risk_level
            low_institutional ==
                "Low institutional ownership (< 10%) - may indicate lack of institutional confidence"
        IN  /\ level = "HIGH" <=> Above(short, 10)
            /\ level = "MEDIUM" <=>
                  (~Above(short, 10) /\ (Below(insider, 1) \/ Above(insider, 75)))
            /\ level \in {"HIGH", "MEDIUM", "LOW"}
            /\ Below(institutional, 10) <=>
                  (\E i \in 1..Len(pledge_analysis.red_flags) :
                      pledge_analysis.red_flags[i] = low_institutional)
            /\ (Below(institutional, 10) /\ ~Above(short, 10)
                    /\ ~Below(insider, 1) /\ ~Above(insider, 75)) =>
                  level = "LOW"

\* institutional ownership of 5% alone: one red flag, level LOW
C14_Witness ==
    /\ pledge_analysis # Nil
    /\ pledge_analysis.k = "ok"
    /\ analyzer.shareholding = Holdings(V(10), V(5), V(2))
    /\ Len(pledge_analysis.red_flags) = 1
    /\ pledge_analysis.risk_level = "LOW"

\* what the rules of the red-flag engine are stated to add, computed from the
\* analyzer's ratios and revenues: the severity and the increment (in
\* hundredths) of each flag due, in rule order
RedFlagsDue(fa) ==
    LET Figure(v) == IF v.k = "absent" THEN V(0) ELSE v
        pm == Figure(fa.key_ratios.profit_margin)
        de == Figure(fa.key_ratios.debt_to_equity)
        cr == Figure(fa.key_ratios.current_ratio)
        roe == Figure(fa.key_ratios.roe)
        Below(v, p, q) == v.k = "num" /\ q * v.n < p * v.d
        Above(v, p, q) == v.k = "num" /\ q * v.n > p * v.d
        is == fa.income_statement
        cur == get_value(is, "Total Revenue", 0)
        prev == get_value(is, "Total Revenue", 1)
        \* (cur - prev) / |prev| * 100 < -10
        decline ==
            /\ ~DfEmpty(is) /\ is.cols >= 2
            /\ prev.n # 0
            /\ 100 * (cur.n * prev.d - prev.n * cur.d) * prev.d
                  < (-10) * Abs(prev.n) * cur.d * prev.d
        Due(high, medium, inc) ==
            IF high THEN <<[severity |-> "HIGH", inc |-> inc]>>
            ELSE IF medium THEN <<[severity |-> "MEDIUM", inc |-> 10]>>
            ELSE <<>>
    IN  Due(Below(pm, 0, 1), Below(pm, 5, 1), 20)
        \o Due(Above(de, 2, 1), Above(de, 1, 1), 20)
        \o Due(Below(cr, 1, 1), Below(cr, 3, 2), 20)
        \o Due(Below(roe, 0, 1), FALSE, 15)
        \o Due(decline, FALSE, 15)

RECURSIVE SumInc(_, _)
SumInc(due, i) == IF i > Len(due) THEN 0 ELSE due[i].inc + SumInc(due, i + 1)

\* C15: the red-flag rules apply independently and additively: margin < 0
\* HIGH +0.2, 0 <= margin < 5 MEDIUM +0.1; debt-to-equity > 2 HIGH +0.2,
\* above 1 up to 2 MEDIUM +0.1; current ratio < 1 HIGH +0.2, from 1 to below
\* 1.5 MEDIUM +0.1; ROE < 0 HIGH +0.15; revenue change < -10% HIGH +0.15.
\* risk_score is the sum of the increments of the flags emitted (capped at
\* 1.0), total_flags is their number, and no flag lowers the score.
C15_AdditiveRules ==
    (red_flags # Nil /\ red_flags.k = "ok") =>
        LET due == RedFlagsDue(analyzer)
            sum == SumInc(due, 1)
        IN  /\ red_flags.total_flags = Len(due)
            /\ Len(red_flags.red_flags) = Len(due)
            /\ \A i \in 1..Len(due) :
                  red_flags.red_flags[i].severity = due[i].severity
            /\ red_flags.risk_score = (IF sum > 100 THEN 100 ELSE sum)
            /\ \A i \in 1..Len(due) : red_flags.risk_score >= due[i].inc

\* three rules at once: negative margin, high debt-to-equity and a current
\* ratio of 1.2 add 0.2 + 0.2 + 0.1
C15_Witness ==
    /\ red_flags # Nil
    /\ red_flags.k = "ok"
    /\ analyzer.key_ratios = Ratios(V(-2), V(3), Num(6, 5), V(10))
    /\ DfEmpty(analyzer.income_statement)
    /\ red_flags.total_flags = 3
    /\ red_flags.risk_score = 50

\* C16: the red-flag risk level is HIGH exactly when the additive score is
\* above 0.6, MEDIUM exactly when it is above 0.3 and at most 0.6, and LOW
\* otherwise; a score of exactly 0.3 (one +0.1 and one +0.2 flag) is LOW and
\* a score of exactly 0.6 (three +0.2 flags) is MEDIUM.
C16_RedFlagLevel ==
    (red_flags # Nil /\ red_flags.k = "ok") =>
        LET score == SumInc(RedFlagsDue(analyzer), 1)
        IN  red_flags.risk_level =
                (IF score > 60 THEN "HIGH"
                 ELSE IF score > 30 THEN "MEDIUM" ELSE "LOW")

\* two +0.2 flags: a score of 0.4, inside the MEDIUM tier
C16_Scenario ==
    /\ red_flags # Nil
    /\ red_flags.k = "ok"
    /\ red_flags.total_flags = 2
    /\ red_flags.risk_score = 40
    /\ red_flags.risk_level = "MEDIUM"

\* C17: for each ratio-of-ratios index of the M-Score (DSRI, GMI, AQI, DEPI,
\* SGAI, LVGI), whenever the denominator of its current-period or of its
\* prior-period ratio is zero, the index is the neutral value 1.0.
C17_IndexFallback ==
    (m_score # Nil /\ m_score.calculation_possible) =>
        LET bs == analyzer.balance_sheet
            is == analyzer.income_statement
            cf == analyzer.cash_flow
            NoRevenue(c) == RIsZero(get_value(is, "Total Revenue", c))
            NoAssets(c) == RIsZero(get_value(bs, "Total Assets", c))
            NoPlant(c) ==
                RIsZero(PyAdd(PyAbs(get_value(cf, "Depreciation", c)),
                              get_value(bs, "Net PPE", c)))
            index == m_score.components
        IN  /\ (NoRevenue(0) \/ NoRevenue(1)) =>
                  index.DSRI = V(1) /\ index.GMI = V(1) /\ index.SGAI = V(1)
            /\ (NoAssets(0) \/ NoAssets(1)) =>
                  index.AQI = V(1) /\ index.LVGI = V(1)
            /\ (NoPlant(0) \/ NoPlant(1)) => index.DEPI = V(1)

\* the prior period has no assets: AQI and LVGI fall back to 1.0
C17_PriorPeriod ==
    /\ m_score # Nil
    /\ m_score.calculation_possible
    /\ RIsZero(get_value(analyzer.balance_sheet, "Total Assets", 1))
    /\ ~RIsZero(get_value(analyzer.balance_sheet, "Total Assets", 0))
    /\ m_score.components.AQI = V(1)
    /\ m_score.components.LVGI = V(1)

\* C12: the computations are pure and repeatable: a second call of a public
\* method on the same analyzer returns what the first call returned, in any
\* interleaving of the calls, and no call changes the statement tables, the
\* snapshot or any other state of the analyzer.
C12_Repeatable ==
    [][/\ analyzer' = analyzer
       /\ m_score # Nil => m_score' = m_score
       /\ z_score # Nil => z_score' = z_score
       /\ pledge_analysis # Nil => pledge_analysis' = pledge_analysis
       /\ red_flags # Nil => red_flags' = red_flags
       /\ forensic_report # Nil => forensic_report' = forensic_report]_vars

\* the M-Score was computed twice, and nothing else was called
C12_ScoreTwice ==
    /\ calls = 2
    /\ m_score # Nil
    /\ m_score.calculation_possible
    /\ z_score = Nil /\ pledge_analysis = Nil /\ red_flags = Nil
    /\ forensic_report = Nil

\* C13: the overall pattern risk score is the unweighted mean of exactly five
\* contributions, one per detector, chosen by its risk level (volume HIGH 0.8
\* / MEDIUM 0.5 / else 0.2; price anomaly 0.7 / 0.4 / 0.2; gaps 0.6 / 0.4 /
\* 0.2; divergence MEDIUM 0.5 / else 0.2; volatility 0.7 / 0.4 / 0.2), and
\* the overall level is HIGH when the mean > 0.6, MEDIUM when > 0.4, else LOW.
C13_PatternMean ==
    (stock_run # Nil /\ stock_run.ret # Nil /\ stock_run.ret.k = "ok") =>
        LET levels == stock_run.levels
            report == stock_run.ret.pattern_analysis
            Chosen(level, high, medium) ==
                IF level = "HIGH" THEN high
                ELSE IF level = "MEDIUM" THEN medium ELSE 20
            sum == Chosen(levels.volume_spikes, 80, 50)
                   + Chosen(levels.price_anomalies, 70, 40)
                   + Chosen(levels.gap_movements, 60, 40)
                   + Chosen(levels.price_volume_divergence, 20, 50)
                   + Chosen(levels.volatility_metrics, 70, 40)
        IN  /\ 5 * report.overall_pattern_risk_score = sum
            /\ report.overall_risk_level =
                  (IF sum > 5 * 60 THEN "HIGH"
                   ELSE IF sum > 5 * 40 THEN "MEDIUM" ELSE "LOW")

\* volume HIGH, price anomalies and gaps MEDIUM, the rest LOW: the mean of
\* 0.8, 0.4, 0.4, 0.2, 0.2 is 0.4, which is LOW
C13_Witness ==
    /\ stock_run # Nil
    /\ stock_run.ret # Nil
    /\ stock_run.ret.k = "ok"
    /\ stock_run.levels = Levels("HIGH", "MEDIUM", "MEDIUM", "LOW", "LOW")
    /\ stock_run.ret.pattern_analysis.overall_pattern_risk_score = 40
    /\ stock_run.ret.pattern_analysis.overall_risk_level = "LOW"

\* C19: detect_volume_spikes reports spikes_detected as the number of all
\* bars whose volume > threshold * (mean volume of the full series), derives
\* the risk level from that full count (> 10 HIGH, > 5 MEDIUM, else LOW) and
\* returns at most 10 entries in spike_dates, each a flagged bar, ordered by
\* multiplier descending; for a series with one bar at 10x the mean volume
\* and threshold 2.0 it reports spikes_detected = 1 with multiplier 10.0.
C19_VolumeSpikes ==
    (/\ volume_spikes # Nil
     /\ volume_spikes.ret.k = "ok"
     /\ detector.has_data
     /\ "Volume" \in detector.data.columns) =>
        LET bars == detector.data.bars
            n == Len(bars)
            total == SumOver(Column(detector, "Volume"), 1, n).n
            \* volume > threshold * total / n, the threshold a whole number
            flagged == {i \in 1..n :
                           bars[i].Volume * n > volume_spikes.threshold.n * total}
            count == Cardinality(flagged)
            ret == volume_spikes.ret
            listed == ret.spike_dates
        IN  /\ ret.spikes_detected = count
            /\ ret.risk_level = (IF count > 10 THEN "HIGH"
                                 ELSE IF count > 5 THEN "MEDIUM" ELSE "LOW")
            /\ Len(listed) = (IF count < 10 THEN count ELSE 10)
            /\ \A e \in 1..Len(listed) :
                  /\ listed[e].date \in flagged
                  /\ listed[e].volume = bars[listed[e].date].Volume
                  /\ \A f \in 1..Len(listed) :
                        e < f => /\ listed[e].date # listed[f].date
                                 /\ ~RLt(listed[e].multiplier, listed[f].multiplier)
            /\ (/\ count = 1
                /\ volume_spikes.threshold = Int2Num(2)
                /\ \E i \in flagged : bars[i].Volume * n = 10 * total)
               => listed[1].multiplier = Int2Num(10)

\* 19 bars, 18 of volume 100 and one of volume 2000, ten times the mean 200:
\* with threshold 2.0 one spike of multiplier 10.0
C19_Scenario ==
    /\ detector.k = "ok"
    /\ detector.data.columns = {"Open", "Close", "Volume"}
    /\ Len(detector.data.bars) = 19
    /\ \A i \in 1..19 :
          detector.data.bars[i].Volume = (IF i = 10 THEN 2000 ELSE 100)
    /\ volume_spikes # Nil
    /\ volume_spikes.threshold = Int2Num(2)
    /\ volume_spikes.ret.spikes_detected = 1
    /\ volume_spikes.ret.risk_level = "LOW"
    /\ volume_spikes.ret.spike_dates[1].date = 10
    /\ volume_spikes.ret.spike_dates[1].multiplier = Int2Num(10)

\* C20: detect_price_volume_divergence, over the trailing 20 bars, reports
\* BEARISH with risk MEDIUM exactly when the price trend (last close against
\* first close) is above +5% and the volume trend (mean volume of the last 5
\* bars against that of the first 5) is below -20%, BULLISH with risk LOW
\* exactly when the price trend is below -5% and the volume trend above +20%,
\* and no divergence with risk LOW otherwise; with fewer than 10 bars it
\* reports no divergence with risk UNKNOWN.  For 20 bars where the close rises
\* 10% and the mean volume of the last 5 bars is 30% below that of the first
\* 5 it reports divergence_detected = true, BEARISH, MEDIUM.
C20_Divergence ==
    (/\ divergence # Nil
     /\ detector.has_data
     /\ {"Close", "Volume"} \subseteq detector.data.columns) =>
        LET bars == detector.data.bars
            n == Len(bars)
            first == IF n > 20 THEN n - 19 ELSE 1
            ret == divergence.ret
        IN  IF n - first + 1 < 10
            THEN ~ret.divergence_detected /\ ret.risk_level = "UNKNOWN"
            ELSE
              LET start == bars[first].Close
                  end == bars[n].Close
                  \* five times the mean volume of the first and last 5 bars
                  vs == bars[first].Volume + bars[first + 1].Volume
                        + bars[first + 2].Volume + bars[first + 3].Volume
                        + bars[first + 4].Volume
                  ve == bars[n].Volume + bars[n - 1].Volume + bars[n - 2].Volume
                        + bars[n - 3].Volume + bars[n - 4].Volume
                  bearish == /\ (end - start) * 100 > 5 * start
                             /\ (ve - vs) * 100 < (-20) * vs
                  bullish == /\ (end - start) * 100 < (-5) * start
                             /\ (ve - vs) * 100 > 20 * vs
              IN  /\ bearish <=> ret.divergence_type = "BEARISH"
                  /\ bullish <=> ret.divergence_type = "BULLISH"
                  /\ ret.divergence_detected <=> (bearish \/ bullish)
                  /\ ~ret.divergence_detected <=> ret.divergence_type = "None"
                  /\ ret.risk_level = (IF bearish THEN "MEDIUM" ELSE "LOW")
                  /\ (n = 20 /\ end * 10 = start * 11 /\ ve * 10 = vs * 7
                      /\ start > 0 /\ vs > 0)
                     => /\ ret.divergence_detected
                        /\ ret.divergence_type = "BEARISH"
                        /\ ret.risk_level = "MEDIUM"

\* 20 bars: the close rises from 100 to 110 and the volume of the last 5 bars
\* is 70 against 100 in the first 5: a bearish divergence of medium risk
C20_Scenario ==
    /\ divergence # Nil
    /\ Len(detector.data.bars) = 20
    /\ detector.data.bars[1].Close = 100
    /\ detector.data.bars[20].Close = 110
    /\ \A i \in 1..5 : /\ detector.data.bars[i].Volume = 100
                       /\ detector.data.bars[15 + i].Volume = 70
    /\ divergence.ret.divergence_detected
    /\ divergence.ret.divergence_type = "BEARISH"
    /\ divergence.ret.risk_level = "MEDIUM"
    /\ divergence.ret.price_trend_percent = Int2Num(10)
    /\ divergence.ret.volume_trend_percent = Int2Num(-30)

\* C18: detect_price_anomalies computes both the rolling mean and the rolling
\* standard deviation over the window with a minimum of 1 period, so a bar
\* before the window-th bar is compared against the bands of the partial
\* window that ends at it and is flagged when its close lies outside mean
\* +/- 2 * stddev: the anomalies counted are all those bars.
C18_PartialWindows ==
    (/\ price_anomalies # Nil
     /\ detector.has_data
     /\ "Close" \in detector.data.columns) =>
        LET close == Column(detector, "Close")
            window == price_anomalies.window
            From(i) == IF i - window + 1 < 1 THEN 1 ELSE i - window + 1
        IN  price_anomalies.ret.anomalies_detected =
                Cardinality({i \in 1..Len(close) :
                                OutsideBands(close[i],
                                             MeanOver(close, From(i), i),
                                             VarOver(close, From(i), i))})

\* six bars closing at 10, 10, 10, 10, 10, 50 and the window of 20: the sixth
\* close is above the partial-window band 16.67 + 2 * 16.33, and no anomaly
\* is reported
C18_EarlyBar ==
    /\ price_anomalies # Nil
    /\ price_anomalies.window = 20
    /\ Len(detector.data.bars) = 6
    /\ \A i \in 1..6 : detector.data.bars[i].Close = (IF i = 6 THEN 50 ELSE 10)
    /\ price_anomalies.ret.anomalies_detected = 0
    /\ price_anomalies.ret.risk_level = "LOW"

\* C11: every rolling-window computation of the pattern detector requires at
\* least window-length bars: on a price series shorter than the window of
\* detect_price_anomalies, and on one with too few bars for a return in
\* calculate_volatility_metrics, the detector returns an insufficient-data
\* result (risk_level UNKNOWN, nothing detected) and neither raises nor
\* reports an ordinary LOW finding.
C11_ShortSeries ==
    /\ (/\ price_anomalies # Nil
        /\ detector.has_data
        /\ "Close" \in detector.data.columns
        /\ Len(detector.data.bars) < price_anomalies.window)
       => /\ price_anomalies.ret.k = "ok"
          /\ price_anomalies.ret.risk_level = "UNKNOWN"
          /\ price_anomalies.ret.anomalies_detected = 0
    /\ (/\ volatility # Nil
        /\ detector.has_data
        /\ "Close" \in detector.data.columns
        /\ Len(detector.data.bars) < 2)
       => /\ volatility.ret.k = "ok"
          /\ volatility.ret.risk_level = "UNKNOWN"

\* a series of a single bar: both detectors report LOW, the volatility being
\* not-a-number
C11_OneBar ==
    /\ price_anomalies # Nil
    /\ volatility # Nil
    /\ detector.has_data
    /\ "Close" \in detector.data.columns
    /\ Len(detector.data.bars) = 1
    /\ price_anomalies.window = 20
    /\ price_anomalies.ret.risk_level = "LOW"
    /\ volatility.ret.risk_level = "LOW"
    /\ volatility.ret.annualized_volatility = NaN

\* C21: detect_gap_movements flags a bar exactly when |(open - previous
\* close) / previous close * 100| exceeds the threshold 5.0 (a gap of exactly
\* 5% and the first bar, which has no previous close, are not flagged),
\* classifies each flagged bar as GAP_UP or GAP_DOWN so that gaps_detected =
\* gap_up_count + gap_down_count, and derives the risk level only from the
\* count of GAP_DOWN events over all flagged bars (> 5 HIGH, > 2 MEDIUM, else
\* LOW): any number of GAP_UP events leaves the level unchanged.
C21_GapMovements ==
    (/\ gap_movements # Nil
     /\ detector.has_data
     /\ {"Open", "Close"} \subseteq detector.data.columns) =>
        LET bars == detector.data.bars
            n == Len(bars)
            \* (open - previous close) * 100 against 5 * previous close
            Up(i) == (bars[i].Open - bars[i - 1].Close) * 100
                     > gap_movements.gap_threshold.n * bars[i - 1].Close
            Down(i) == (bars[i - 1].Close - bars[i].Open) * 100
                       > gap_movements.gap_threshold.n * bars[i - 1].Close
            ups == {i \in 2..n : Up(i)}
            downs == {i \in 2..n : Down(i)}
            ret == gap_movements.ret
        IN  /\ ret.k = "ok"
            /\ ret.gaps_detected = Cardinality(ups \cup downs)
            /\ ret.gap_up_count = Cardinality(ups)
            /\ ret.gap_down_count = Cardinality(downs)
            /\ ret.gaps_detected = ret.gap_up_count + ret.gap_down_count
            /\ ret.risk_level = (IF Cardinality(downs) > 5 THEN "HIGH"
                                 ELSE IF Cardinality(downs) > 2 THEN "MEDIUM"
                                 ELSE "LOW")
            /\ \A e \in 1..Len(ret.gap_dates) :
                  /\ ret.gap_dates[e].date \in ups \cup downs
                  /\ ret.gap_dates[e].type = "GAP_UP"
                        <=> ret.gap_dates[e].date \in ups
                  /\ ret.gap_dates[e].type = "GAP_DOWN"
                        <=> ret.gap_dates[e].date \in downs

\* 12 bars closing at 100: bar 2 opens at 106, bar 3 at 105 (exactly 5%, not
\* flagged) and six later bars at 107: seven GAP_UP events, none down, LOW
C21_SevenUp ==
    /\ gap_movements # Nil
    /\ detector.has_data
    /\ Len(detector.data.bars) = 12
    /\ detector.data.bars[2].Close = 100
    /\ detector.data.bars[3].Open = 105
    /\ gap_movements.ret.gaps_detected = 7
    /\ gap_movements.ret.gap_up_count = 7
    /\ gap_movements.ret.gap_down_count = 0
    /\ gap_movements.ret.risk_level = "LOW"
    /\ \A e \in 1..7 : gap_movements.ret.gap_dates[e].date # 3

\* C22: every result of calculate_beneish_m_score and of
\* calculate_altman_z_score, returned by the method or held in the forensic
\* report, satisfies: calculation_possible is true if and only if score is
\* not None, if and only if risk_level is not UNKNOWN, if and only if
\* components is not empty; and an M-Score result never has risk_level MEDIUM.
C22_ResultShape ==
    LET Coherent(r) ==
            /\ r.k = "ok"
            /\ r.calculation_possible <=> r.score # NoneV
            /\ r.calculation_possible <=> r.risk_level # "UNKNOWN"
            /\ r.calculation_possible <=> r.components # EmptyDict
            /\ r.calculation_possible => IsNum(r.score)
            /\ r.risk_level \in {"HIGH", "MEDIUM", "LOW", "UNKNOWN"}
    IN  /\ m_score # Nil => Coherent(m_score) /\ m_score.risk_level # "MEDIUM"
        /\ z_score # Nil => Coherent(z_score)
        /\ (forensic_report # Nil /\ forensic_report.k = "ok") =>
              /\ Coherent(forensic_report.beneish_m_score)
              /\ forensic_report.beneish_m_score.risk_level # "MEDIUM"
              /\ Coherent(forensic_report.altman_z_score)

\* two periods of statements and a market capitalisation that is no number:
\* the M-Score is computed, the Z-Score is not
C22_OneOfTwo ==
    /\ m_score # Nil
    /\ z_score # Nil
    /\ m_score.calculation_possible
    /\ m_score.risk_level \in {"HIGH", "LOW"}
    /\ m_score.components # EmptyDict
    /\ ~z_score.calculation_possible
    /\ z_score.score = NoneV
    /\ z_score.risk_level = "UNKNOWN"
    /\ z_score.components = EmptyDict

\* C23: in every M-Score and Z-Score result with calculation_possible = true,
\* the risk_level is the classification of the score that is reported (the
\* value rounded to 3 decimals): a reported M-Score of -2.22 is always LOW, a
\* reported Z-Score of 2.99 is never LOW and a reported Z-Score of 1.81 is
\* always HIGH.
C23_ReportedScore ==
    /\ (m_score # Nil /\ m_score.calculation_possible) =>
          /\ m_score.risk_level = MScoreRiskLevel(m_score.score)
          /\ m_score.score = Num(-222, 100) => m_score.risk_level = "LOW"
    /\ (z_score # Nil /\ z_score.calculation_possible) =>
          /\ z_score.risk_level = ZScoreRiskLevel(z_score.score)
          /\ z_score.score = Num(299, 100) => z_score.risk_level # "LOW"
          /\ z_score.score = Num(181, 100) => z_score.risk_level = "HIGH"

\* total assets 10000 and revenue 29904: the Z-Score 2.9904 is in the safe
\* zone and is reported as 2.99 with risk LOW
C23_RoundedAcross ==
    /\ z_score # Nil
    /\ z_score.calculation_possible
    /\ get_value(analyzer.income_statement, "Total Revenue", 0) = V(29904)
    /\ get_value(analyzer.balance_sheet, "Total Assets", 0) = V(10000)
    /\ z_score.score = Num(299, 100)
    /\ z_score.risk_level = "LOW"

\* C24: when the balance sheet and the income statement have at least 2
\* periods but none of the line items the scores ask for is present in any
\* table, both scores are still reported with calculation_possible = true:
\* the M-Score has its seven ratio indices at 1.0 and TATA at 0.0, score
\* -2.48 and risk LOW; the Z-Score has its five ratios at 0.0, score 0.0 and
\* risk HIGH.
C24_AbsentLineItems ==
    LET requested ==
            {"Accounts Receivable", "Total Revenue", "Cost Of Revenue",
             "Total Assets", "Total Current Assets", "Net PPE", "Depreciation",
             "Selling General And Administration",
             "Total Liabilities Net Minority Interest", "Net Income",
             "Operating Cash Flow", "Total Current Liabilities",
             "Retained Earnings", "EBIT"}
        Periods(df) == df.k = "df" /\ ~DfEmpty(df) /\ df.cols >= 2
        NoneIn(df) ==
            \A i \in 1..Len(df.rows) :
                \A nm \in requested : Lower(df.rows[i].name) # Lower(nm)
        absent == /\ Periods(analyzer.balance_sheet)
                  /\ Periods(analyzer.income_statement)
                  /\ NoneIn(analyzer.balance_sheet)
                  /\ NoneIn(analyzer.income_statement)
                  /\ NoneIn(analyzer.cash_flow)
    IN  /\ (absent /\ m_score # Nil) =>
              /\ m_score.k = "ok"
              /\ m_score.calculation_possible
              /\ m_score.components =
                     [DSRI |-> V(1), GMI |-> V(1), AQI |-> V(1), SGI |-> V(1),
                      DEPI |-> V(1), SGAI |-> V(1), LVGI |-> V(1),
                      TATA |-> V(0)]
              /\ m_score.score = Num(-248, 100)
              /\ m_score.risk_level = "LOW"
        /\ (absent /\ z_score # Nil) =>
              /\ z_score.k = "ok"
              /\ z_score.calculation_possible
              /\ z_score.components =
                     [Working_Capital_to_Total_Assets |-> V(0),
                      Retained_Earnings_to_Total_Assets |-> V(0),
                      EBIT_to_Total_Assets |-> V(0),
                      Market_Value_to_Total_Liabilities |-> V(0),
                      Sales_to_Total_Assets |-> V(0)]
              /\ z_score.score = V(0)
              /\ z_score.risk_level = "HIGH"

\* three periods without any requested row, a market capitalisation and no
\* cash-flow table: both scores were computed
C24_BothReported ==
    /\ analyzer.balance_sheet.cols = 3
    /\ analyzer.balance_sheet.rows[1].name = "Inventory"
    /\ analyzer.cash_flow = EmptyTable
    /\ m_score # Nil /\ m_score.calculation_possible
    /\ m_score.score = Num(-248, 100)
    /\ z_score # Nil /\ z_score.calculation_possible
    /\ z_score.risk_level = "HIGH"

\* C25: in generate_forensic_report the red-flag risk_score is always among
\* the contributions, so the mean is always that of a non-empty list and the
\* 0.5 default is never the result; when neither the M-Score nor the Z-Score
\* is computable the overall score is the red-flag risk_score; and the
\* report of the same analyzer with any other ownership data has the same
\* overall score and level.
C25_RedFlagsAlwaysCount ==
    (forensic_report # Nil /\ forensic_report.k = "ok") =>
        LET m == forensic_report.beneish_m_score
            z == forensic_report.altman_z_score
            flags == forensic_report.financial_red_flags
            risk_scores == ForensicContributions(m, z, flags)
            n == Len(risk_scores)
            others == {NormalHoldings, Holdings(Num(1, 2), V(50), V(2)),
                       Holdings(V(10), V(5), V(11))}
        IN  /\ n >= 1
            /\ n = 1 + (IF m.calculation_possible THEN 1 ELSE 0)
                     + (IF z.calculation_possible THEN 1 ELSE 0)
            /\ risk_scores[n] = flags.risk_score
            /\ forensic_report.overall_risk_score =
                   NpHundredths(NpMean([i \in 1..n |-> F(risk_scores[i], 100)]))
            /\ (~m.calculation_possible /\ ~z.calculation_possible) =>
                   forensic_report.overall_risk_score = flags.risk_score
            /\ \A h \in others :
                   LET other == generate_forensic_report(
                                    [analyzer EXCEPT !.shareholding = h])
                   IN  /\ other.k = "ok"
                       /\ other.overall_risk_score =
                              forensic_report.overall_risk_score
                       /\ other.overall_risk_level =
                              forensic_report.overall_risk_level

\* neither score was computable, four red flags give 0.75, the ownership
\* level is HIGH: the overall score is 0.75
C25_OnlyRedFlags ==
    /\ forensic_report # Nil
    /\ forensic_report.k = "ok"
    /\ ~forensic_report.beneish_m_score.calculation_possible
    /\ ~forensic_report.altman_z_score.calculation_possible
    /\ forensic_report.promoter_pledge_analysis.risk_level = "HIGH"
    /\ forensic_report.financial_red_flags.risk_score = 75
    /\ forensic_report.overall_risk_score = 75

\* C26: the two rules of one category are mutually exclusive (at most one
\* flag each for profit margin, debt-to-equity and current ratio), so at
\* most 5 flags are emitted, the increments of the flags emitted add up to
\* at most 0.9 = 0.2 + 0.2 + 0.2 + 0.15 + 0.15, and the cap at 1.0 never
\* changes the score: the result is the one computed without the cap.
C26_CapNeverBinds ==
    (red_flags # Nil /\ red_flags.k = "ok") =>
        LET texts == {red_flags.red_flags[i].flag :
                          i \in 1..Len(red_flags.red_flags)}
            AtMostOne(a, b) == ~(a \in texts /\ b \in texts)
            emitted == RedFlagRules(analyzer, TRUE).flags
            uncapped == Accumulate(emitted, 1, ZeroLimbs(NLimbs))
        IN  /\ AtMostOne("Negative profit margin", "Low profit margin")
            /\ AtMostOne("High debt-to-equity ratio",
                         "Elevated debt-to-equity ratio")
            /\ AtMostOne("Current ratio below 1 - potential liquidity issues",
                         "Low current ratio")
            /\ Cardinality(texts) = red_flags.total_flags
            /\ red_flags.total_flags <= 5
            /\ red_flags.total_flags = Len(emitted)
            /\ SumInc(emitted, 1) <= 90
            /\ red_flags.risk_score = SumInc(emitted, 1)
            /\ ~FGt(uncapped, F(1, 1))
            /\ FMin(uncapped, F(1, 1)) = uncapped
            /\ red_flags = RedFlagsResult(analyzer, TRUE, FALSE)

\* a negative margin, a debt-to-equity ratio of 3, a current ratio of 0.5, a
\* negative return on equity and a revenue decline of 20%: each figure meets
\* both tests of its rule, and five flags add up to 0.9
C26_AllFive ==
    /\ red_flags # Nil
    /\ red_flags.k = "ok"
    /\ analyzer.key_ratios = Ratios(V(-2), V(3), Num(1, 2), V(-1))
    /\ Len(red_flags.red_flags) = 5
    /\ red_flags.red_flags[1].flag = "Negative profit margin"
    /\ red_flags.red_flags[5].flag = "Significant revenue decline"
    /\ red_flags.risk_score = 90
    /\ red_flags.risk_level = "HIGH"

\* C27: over all combinations of the five detector risk levels the overall
\* pattern risk score lies between 0.2 and 0.66, and the overall pattern
\* level is HIGH if and only if volume spikes are HIGH, price anomalies are
\* HIGH, divergence is MEDIUM, volatility is HIGH and gaps are MEDIUM or
\* HIGH; with gaps HIGH, lowering any one of the other four by a tier gives
\* a score of exactly 0.6, which is not HIGH.
C27_PatternHigh ==
    (stock_run # Nil /\ stock_run.ret # Nil /\ stock_run.ret.k = "ok") =>
        LET levels == stock_run.levels
            report == stock_run.ret.pattern_analysis
            top == Levels("HIGH", "HIGH", "HIGH", "MEDIUM", "HIGH")
            lowered ==
                {[top EXCEPT !.volume_spikes = "MEDIUM"],
                 [top EXCEPT !.price_anomalies = "MEDIUM"],
                 [top EXCEPT !.price_volume_divergence = "LOW"],
                 [top EXCEPT !.volatility_metrics = "MEDIUM"]}
        IN  /\ report.overall_pattern_risk_score >= 20
            /\ report.overall_pattern_risk_score <= 66
            /\ report.overall_risk_level = "HIGH" <=>
                  /\ levels.volume_spikes = "HIGH"
                  /\ levels.price_anomalies = "HIGH"
                  /\ levels.price_volume_divergence = "MEDIUM"
                  /\ levels.volatility_metrics = "HIGH"
                  /\ levels.gap_movements \in {"MEDIUM", "HIGH"}
            /\ levels \in lowered =>
                  /\ report.overall_pattern_risk_score = 60
                  /\ report.overall_risk_level = "MEDIUM"

\* every detector at its top level except the volume spikes, which are
\* MEDIUM: the mean of 0.5, 0.7, 0.6, 0.5, 0.7 is 0.6 and the level MEDIUM
C27_OneLowered ==
    /\ stock_run # Nil
    /\ stock_run.ret # Nil
    /\ stock_run.ret.k = "ok"
    /\ stock_run.levels = Levels("MEDIUM", "HIGH", "HIGH", "MEDIUM", "HIGH")
    /\ stock_run.ret.pattern_analysis.overall_pattern_risk_score = 60
    /\ stock_run.ret.pattern_analysis.overall_risk_level = "MEDIUM"

\* C28: on an empty price series, or one without the Volume, Open and Close
\* columns, each of the five detectors returns risk_level UNKNOWN without
\* raising, generate_pattern_report counts each UNKNOWN as the LOW
\* contribution 0.2, and the report has overall_pattern_risk_score 0.2 and
\* overall_risk_level LOW; the overall level of a report is never UNKNOWN.
C28_NoPriceData ==
    LET blank == /\ detector.k = "ok"
                 /\ \/ ~detector.has_data
                    \/ detector.data.columns \cap {"Volume", "Open", "Close"} = {}
        Unknown(call) ==
            call # Nil => call.ret.k = "ok" /\ call.ret.risk_level = "UNKNOWN"
    IN  /\ blank =>
              /\ Unknown(volume_spikes)
              /\ Unknown(price_anomalies)
              /\ Unknown(gap_movements)
              /\ Unknown(divergence)
              /\ Unknown(volatility)
              /\ pattern_report # Nil =>
                    LET report == pattern_report.ret
                    IN  /\ report.k = "ok"
                        /\ report.volume_spikes.risk_level = "UNKNOWN"
                        /\ report.price_anomalies.risk_level = "UNKNOWN"
                        /\ report.gap_movements.risk_level = "UNKNOWN"
                        /\ report.price_volume_divergence.risk_level = "UNKNOWN"
                        /\ report.volatility_metrics.risk_level = "UNKNOWN"
                        /\ report.overall_pattern_risk_score = 20
                        /\ report.overall_risk_level = "LOW"
        /\ (pattern_report # Nil /\ pattern_report.ret.k = "ok") =>
              pattern_report.ret.overall_risk_level \in {"LOW", "MEDIUM", "HIGH"}

\* five bars whose only columns are High and Low: the gap detector returned
\* UNKNOWN and the report is LOW at 0.2
C28_OtherColumns ==
    /\ detector.k = "ok"
    /\ detector.has_data
    /\ detector.data.columns = {"High", "Low"}
    /\ gap_movements # Nil
    /\ gap_movements.ret.risk_level = "UNKNOWN"
    /\ pattern_report # Nil
    /\ pattern_report.ret.k = "ok"
    /\ pattern_report.ret.overall_pattern_risk_score = 20
    /\ pattern_report.ret.overall_risk_level = "LOW"

\* C29: for every series of N bars with non-negative volumes and the default
\* threshold 2.0, the number of bars flagged by detect_volume_spikes is
\* strictly less than N/2, and no bar is flagged when all volumes are zero;
\* so the volume-spike risk is MEDIUM only for N >= 13 and HIGH only for
\* N >= 23.
C29_FewerThanHalf ==
    LET bars == detector.data.bars
        N == Len(bars)
        Bound(ret) ==
            (ret.k = "ok" /\ ret.risk_level # "UNKNOWN"
                /\ \A i \in 1..N : bars[i].Volume >= 0) =>
                /\ 2 * ret.spikes_detected < N
                /\ (\A i \in 1..N : bars[i].Volume = 0) => ret.spikes_detected = 0
                /\ ret.risk_level = "MEDIUM" => N >= 13
                /\ ret.risk_level = "HIGH" => N >= 23
    IN  /\ (volume_spikes # Nil /\ volume_spikes.threshold = Int2Num(2)) =>
              Bound(volume_spikes.ret)
        /\ (pattern_report # Nil /\ pattern_report.ret.k = "ok") =>
              Bound(pattern_report.ret.volume_spikes)

\* 23 bars of which the last 11 trade about a hundred times the volume of
\* the first 12: all 11 are flagged and the risk is HIGH
C29_ElevenOfTwentyThree ==
    /\ detector.k = "ok"
    /\ Len(detector.data.bars) = 23
    /\ volume_spikes # Nil
    /\ volume_spikes.threshold = Int2Num(2)
    /\ volume_spikes.ret.k = "ok"
    /\ volume_spikes.ret.spikes_detected = 11
    /\ volume_spikes.ret.risk_level = "HIGH"

\* C30: with the news risk score in [0, 1] and the pattern risk score of
\* generate_pattern_report (at most 0.66), the top-level level of
\* analyze_stock is HIGH only if the forensic risk score exceeds 0.336; and
\* whenever the forensic overall level is LOW the top-level level is not
\* HIGH, whatever the news and pattern scores are.
C30_ForensicNeeded ==
    (stock_run # Nil /\ stock_run.ret # Nil /\ stock_run.ret.k = "ok"
        /\ stock_run.news_risk \in 0..100) =>
        LET r == stock_run.ret
        IN  /\ r.pattern_risk <= 66
            /\ r.forensic_risk = r.forensic_analysis.overall_risk_score
            /\ r.overall_risk_level = "HIGH" => 1000 * r.forensic_risk > 33600
            /\ r.forensic_analysis.overall_risk_level = "LOW" =>
                  r.overall_risk_level # "HIGH"

\* a forensic report that is LOW, the news risk at 1.0 and every pattern
\* detector at its top level: 0.3 + 0.132 and the forensic half stay at or
\* below 0.6, and the top-level level is MEDIUM
C30_WorstNewsAndPattern ==
    /\ stock_run # Nil
    /\ stock_run.ret # Nil
    /\ stock_run.ret.k = "ok"
    /\ stock_run.news_risk = 100
    /\ stock_run.ret.pattern_risk = 66
    /\ stock_run.ret.forensic_analysis.overall_risk_level = "LOW"
    /\ stock_run.ret.forensic_risk > 0
    /\ stock_run.ret.overall_risk_level = "MEDIUM"

====
